---- MODULE Spec2Model ----
(***************************************************************************)
(* Scan task lifecycle, worker pool and device reconciliation of the       *)
(* pulse network monitor (pulse/scheduler/scheduler.py,                    *)
(* pulse/scanner/worker.py, pulse/storage/db.py).                          *)
(***************************************************************************)
EXTENDS Integers, Sequences, FiniteSets, TLC

\* ------------------------------------------------------------------ bounds
MaxTasks == 2
MaxFutures == 2
MaxBatch == 1
MaxScans == 2
MaxClock == 1

\* scanner.workers.max_workers as configured for the model
max_workers == 1
\* get_pending_tasks(limit=10) in the backlog sweep
SweepLimit == 10

Threads == {"t1", "t2", "t3"}
TriggerThreads == {"t1", "t2"}
SweepThread == "t3"
ExecIds == 1..Cardinality(Threads)
TaskTypes == {"discovery", "bogus"}
KnownTypes == {"discovery", "quick", "deep", "full", "custom"}

VARIABLES
    tasks,          \* scan_tasks table: row id = index
    executor,       \* ScanWorkerPool.executor: 0 is None, else an executor id
    nexec,          \* number of ThreadPoolExecutor objects constructed so far
    queue,          \* work queue of each executor
    fut,            \* every Future created by submit, by creation order
    active_tasks,   \* ScanWorkerPool.active_tasks: task id -> future (0: absent)
    pc,             \* position of each caller thread
    loc,            \* locals of each caller thread
    lastCancel,     \* what the last cancel_task call returned
    sched,          \* the ScanScheduler: is_running, and its APScheduler's
                    \* state, tentative jobs and job store (the registry)
    files,          \* how many scratch XML files of scan() exist
    devices,        \* devices table: row id = index
    ports,          \* ports table: row id = index
    events,         \* events table: row id = index
    scan_results,   \* scan_results table: row id = index
    conn,           \* last_insert_rowid of each thread's own connection
    now             \* the store's clock (CURRENT_TIMESTAMP)

poolVars == <<executor, nexec, queue, fut, active_tasks>>
dbVars == <<devices, ports, events, scan_results, conn, now>>
vars == <<tasks, executor, nexec, queue, fut, active_tasks, pc, loc, lastCancel, sched, files,
          devices, ports, events, scan_results, conn, now>>

NoLoc == [tid |-> 0, ttype |-> "discovery", cb |-> FALSE, todo |-> <<>>,
          fid |-> 0, snap |-> {}, then |-> "idle", raised |-> FALSE,
          devs |-> <<>>, device_id |-> 0, prts |-> <<>>, after |-> "idle",
          n |-> 0, batch |-> <<>>, failed |-> {}, timeout |-> 0,
          scan_result |-> [success |-> FALSE, error |-> "none", duration |-> 0,
                           xml_output |-> "none"],
          xml_output |-> [kind |-> "xml", hosts |-> <<>>],
          parsed_data |-> [error |-> FALSE, hosts |-> <<>>],
          extracted |-> <<>>,
          matches |-> <<>>, best_match |-> 0,
          device_data |-> [hostname |-> {}, vendor |-> {}, os_name |-> {}, os_family |-> {},
                           open_ports |-> {}, services |-> {}, open_ports_count |-> 0,
                           closed_named |-> FALSE],
          rules |-> <<>>, device_type |-> "none", confidence |-> "none",
          device |-> [hostname |-> "None", vendor |-> "None", device_type |-> "None",
                      open_ports |-> <<>>, closed_ports |-> <<>>, other_open |-> 0],
          reasons |-> <<>>, suspicious |-> <<>>]
NoResult == [task_id |-> 0, success |-> FALSE, error |-> "none", devices |-> <<>>,
             parsed_data |-> "none"]
NoCancel == "none"

\* a job of the registry: the function it fires, its trigger and whether it
\* is paused (next_run_time None)
Job(func, trigger, seconds) ==
    [func |-> func, trigger |-> trigger, seconds |-> seconds, paused |-> FALSE]

\* the job store after start(): _setup_default_jobs has added the recurring
\* discovery (scanner.intervals.discovery, default 300 s) and the 30 s sweep
DefaultJobs ==
    [id \in {"recurring_discovery", "process_pending_tasks"} |->
        IF id = "recurring_discovery"
        THEN Job("_run_discovery_scan", "interval", 300)
        ELSE Job("_process_pending_tasks", "interval", 30)]

\* the scheduler of a started application (create_app starts it)
Started_sched ==
    [is_running |-> TRUE, state |-> "running", pending_jobs |-> <<>>,
     jobs |-> DefaultJobs, discovery |-> 300, op |-> "none", ret |-> "none"]

Init ==
    /\ tasks = <<>>
    /\ executor = 0
    /\ nexec = 0
    /\ queue = [e \in ExecIds |-> <<>>]
    /\ fut = <<>>
    /\ active_tasks = [t \in 1..MaxTasks |-> 0]
    /\ pc = [th \in Threads |-> "idle"]
    /\ loc = [th \in Threads |-> NoLoc]
    /\ lastCancel = NoCancel
    /\ sched = Started_sched
    /\ files = 0
    /\ devices = <<>>
    /\ ports = <<>>
    /\ events = <<>>
    /\ scan_results = <<>>
    /\ conn = [th \in Threads |-> 0]
    /\ now = 0

\* ------------------------------------------------------------ Database
\* create_scan_task: INSERT a row, status as given (default pending);
\* scheduled_at is NULL or a text, and due tells whether the comparison
\* scheduled_at <= CURRENT_TIMESTAMP of get_pending_tasks holds for the row
\* priority is the default of task_data.get('priority', 5), no caller of the
\* scheduler passes one; created_at is the second of the INSERT, here one
\* INSERT per second
DefaultPriority == 5

create_scan_task(ttype, scheduled_at, due) ==
    Append(tasks, [ttype |-> ttype, status |-> "pending",
                   priority |-> DefaultPriority, created_at |-> Len(tasks) + 1,
                   scheduled_at |-> scheduled_at, due |-> due, error |-> "none"])

\* update_task_status: unconditional UPDATE ... WHERE id = ?
update_task_status(tbl, id, status, error) ==
    IF id \in 1..Len(tbl)
    THEN [tbl EXCEPT ![id].status = status,
                     ![id].error = IF status \in {"completed", "failed"}
                                   THEN error ELSE @]
    ELSE tbl

\* variant: WHERE status = 'pending' AND scheduled_at IS NULL
Eligible_unscheduled(tbl, i) ==
    /\ tbl[i].status = "pending"
    /\ tbl[i].scheduled_at = "NULL"

\* WHERE status = 'pending' AND (scheduled_at IS NULL OR
\*       scheduled_at <= CURRENT_TIMESTAMP)
Eligible(tbl, i) ==
    /\ tbl[i].status = "pending"
    /\ (tbl[i].scheduled_at = "NULL" \/ tbl[i].due)

\* variant: ORDER BY created_at ASC alone
SortsBefore_oldest(tbl, i, j) == tbl[i].created_at < tbl[j].created_at

\* ORDER BY priority DESC, created_at ASC: row i sorts strictly before row j
SortsBefore(tbl, i, j) ==
    \/ tbl[i].priority > tbl[j].priority
    \/ tbl[i].priority = tbl[j].priority /\ tbl[i].created_at < tbl[j].created_at

\* the orders the SELECT may return the eligible rows in: rows that compare
\* equal under the ORDER BY come in an order SQL leaves unspecified
PendingOrders(tbl) ==
    LET E == {i \in 1..Len(tbl) : Eligible(tbl, i)}
        n == Cardinality(E)
    IN  {s \in [1..n -> E] :
            /\ \A a, b \in 1..n : a # b => s[a] # s[b]
            /\ \A a, b \in 1..n : a < b => ~SortsBefore(tbl, s[b], s[a])}

\* get_pending_tasks: the ids the query may return, LIMIT limit
get_pending_tasks(tbl, limit) ==
    {IF Len(s) <= limit THEN s ELSE SubSeq(s, 1, limit) : s \in PendingOrders(tbl)}

\* ---------------------------------------------------- inventory tables
IPs == {"ip1", "ip2"}
Tags == {"A", "B"}
Fields == {"mac_address", "hostname", "vendor", "oui", "device_type", "os_name",
           "os_family", "os_version", "os_accuracy", "status", "metadata"}
Shapes == {"host", "scan", "named", "bare"}

\* a device dictionary: its address, the keys it carries and the value (tag)
\* it gives each of them
DeviceDicts == [ip : IPs, shape : Shapes, tag : Tags]

\* the keys a dictionary carries: "host" and "scan" are what extract_devices
\* builds for a host with, and without, a MAC, an OS match and ports; "named"
\* and "bare" are a direct caller's dictionaries with an address, a hostname
\* and a status, and with the address only
PresentKeys(shape) ==
    CASE shape = "host" -> Fields \ {"device_type"}
      [] shape = "scan" -> {"mac_address", "hostname", "vendor", "status", "metadata"}
      [] shape = "named" -> {"hostname", "status"}
      [] shape = "bare" -> {}

\* device_data[key] for a key the dictionary carries: extract_devices keeps
\* only hosts whose status is 'up', and gives a host it knows nothing more
\* about None values and an empty metadata dictionary
Value(d, k) ==
    CASE k = "status" -> IF d.shape \in {"host", "scan"} THEN "up" ELSE d.tag
      [] k = "metadata" -> IF d.shape = "scan" THEN "empty" ELSE d.tag
      [] OTHER -> IF d.shape = "scan" THEN "None" ELSE d.tag

\* device_data.get(key): None when the key is missing
Get(d, k) == IF k \in PresentKeys(d.shape) THEN Value(d, k) ELSE "None"

\* json.dumps of a metadata dictionary
json_dumps(m) ==
    CASE m = "A" -> "{json A}"
      [] m = "B" -> "{json B}"
      [] m = "empty" -> "{}"

\* device_data['metadata']['ports'], when the dictionary carries one
PortsOf(d) ==
    IF d.shape = "host"
    THEN <<[port |-> 80, protocol |-> "tcp", state |-> d.tag, service |-> d.tag]>>
    ELSE <<>>

\* the parameter tuple of add_device's INSERT (lines 114-127)
DeviceValues(d) ==
    [k \in Fields |->
        CASE k = "status" -> IF k \in PresentKeys(d.shape) THEN Get(d, k) ELSE "up"
          [] k = "metadata" -> json_dumps(IF k \in PresentKeys(d.shape)
                                          THEN Get(d, k) ELSE "empty")
          [] OTHER -> Get(d, k)]

RowOf(tbl, ip) == CHOOSE i \in 1..Len(tbl) : tbl[i].ip = ip
HasRow(tbl, ip) == \E i \in 1..Len(tbl) : tbl[i].ip = ip

\* variant: a plain INSERT, with no conflict clause
add_device_inserting(tbl, d, t) ==
    Append(tbl, [ip |-> d.ip, vals |-> DeviceValues(d),
                 first_seen |-> t, last_seen |-> t])

\* variant: DO UPDATE SET column = COALESCE(excluded.column, column)
add_device_coalescing(tbl, d, t) ==
    IF HasRow(tbl, d.ip)
    THEN [tbl EXCEPT ![RowOf(tbl, d.ip)].vals =
                         [k \in Fields |-> IF Get(d, k) = "None" THEN @[k]
                                           ELSE DeviceValues(d)[k]],
                     ![RowOf(tbl, d.ip)].last_seen = t]
    ELSE Append(tbl, [ip |-> d.ip, vals |-> DeviceValues(d),
                      first_seen |-> t, last_seen |-> t])

\* variant: DO UPDATE SET only the columns the dictionary carries
add_device_partial(tbl, d, t) ==
    IF HasRow(tbl, d.ip)
    THEN [tbl EXCEPT ![RowOf(tbl, d.ip)].vals =
                         [k \in Fields |-> IF k \in PresentKeys(d.shape)
                                           THEN DeviceValues(d)[k] ELSE @[k]],
                     ![RowOf(tbl, d.ip)].last_seen = t]
    ELSE Append(tbl, [ip |-> d.ip, vals |-> DeviceValues(d),
                      first_seen |-> t, last_seen |-> t])

\* variant: DO UPDATE SET also first_seen = CURRENT_TIMESTAMP
add_device_refreshing(tbl, d, t) ==
    IF HasRow(tbl, d.ip)
    THEN [tbl EXCEPT ![RowOf(tbl, d.ip)].vals = DeviceValues(d),
                     ![RowOf(tbl, d.ip)].first_seen = t,
                     ![RowOf(tbl, d.ip)].last_seen = t]
    ELSE Append(tbl, [ip |-> d.ip, vals |-> DeviceValues(d),
                      first_seen |-> t, last_seen |-> t])

\* add_device: INSERT ... ON CONFLICT(ip_address) DO UPDATE SET every column
\* = excluded.column, last_seen = CURRENT_TIMESTAMP
add_device(tbl, d, t) ==
    IF HasRow(tbl, d.ip)
    THEN [tbl EXCEPT ![RowOf(tbl, d.ip)].vals = DeviceValues(d),
                     ![RowOf(tbl, d.ip)].last_seen = t]
    ELSE Append(tbl, [ip |-> d.ip, vals |-> DeviceValues(d),
                      first_seen |-> t, last_seen |-> t])

\* cursor.lastrowid after add_device: the connection's last inserted rowid,
\* which an upsert that took the UPDATE path leaves as it was
add_device_rowid(tbl, d, last) ==
    IF HasRow(tbl, d.ip) THEN last ELSE Len(tbl) + 1

PortKey(r) == <<r.device_id, r.port_number, r.protocol>>
HasPort(tbl, key) == \E i \in 1..Len(tbl) : PortKey(tbl[i]) = key
PortRow(tbl, key) == CHOOSE i \in 1..Len(tbl) : PortKey(tbl[i]) = key

\* ports.device_id references devices(id), with PRAGMA foreign_keys = ON
ForeignKeyOk(device_id) == device_id \in 1..Len(devices)

\* add_port: INSERT ... ON CONFLICT(device_id, port_number, protocol) DO UPDATE
add_port(tbl, device_id, p, t) ==
    LET key == <<device_id, p.port, p.protocol>>
    IN  IF HasPort(tbl, key)
        THEN [tbl EXCEPT ![PortRow(tbl, key)].state = p.state,
                         ![PortRow(tbl, key)].service_name = p.service,
                         ![PortRow(tbl, key)].last_seen = t]
        ELSE Append(tbl, [device_id |-> device_id, port_number |-> p.port,
                          protocol |-> p.protocol, state |-> p.state,
                          service_name |-> p.service, last_seen |-> t])

add_port_rowid(tbl, device_id, p, last) ==
    IF HasPort(tbl, <<device_id, p.port, p.protocol>>) THEN last ELSE Len(tbl) + 1

\* create_event: INSERT INTO events
create_event(tbl, etype, device_id) ==
    Append(tbl, [event_type |-> etype, severity |-> "info", device_id |-> device_id])

\* save_scan_result: INSERT INTO scan_results
save_scan_result(tbl, task_id) == Append(tbl, [task_id |-> task_id])

\* --------------------------------------------------------- ScanWorkerPool
Running(e) == {f \in 1..Len(fut) : fut[f].ex = e /\ fut[f].state = "RUNNING"}
Busy(e) == {f \in 1..Len(fut) : fut[f].ex = e /\ fut[f].busy}
Submitting == {th \in Threads : pc[th] \in {"start", "submit"}}

\* variant: a submission that finds every worker busy is tracked but its
\* work item is not queued
Enqueue_dropping(th, tid, ttype, cb, nextpc) ==
    LET f == Len(fut) + 1
    IN  /\ fut' = Append(fut, [task |-> tid, ttype |-> ttype,
                               state |-> "PENDING", ex |-> executor,
                               cb |-> cb, busy |-> FALSE,
                               result |-> NoResult])
        /\ queue' = IF Cardinality(Busy(executor)) >= max_workers THEN queue
                    ELSE [queue EXCEPT ![executor] = Append(@, f)]
        /\ active_tasks' = [active_tasks EXCEPT ![tid] = f]
        /\ loc' = [loc EXCEPT ![th] = IF nextpc = "idle" THEN NoLoc
                                      ELSE [@ EXCEPT !.tid = tid, !.ttype = ttype,
                                                     !.cb = cb, !.fid = f]]
        /\ pc' = [pc EXCEPT ![th] = nextpc]
        /\ UNCHANGED <<executor, nexec>>

\* ThreadPoolExecutor.submit and active_tasks[task_id] = future (lines 123-133)
Enqueue(th, tid, ttype, cb, nextpc) ==
    LET f == Len(fut) + 1
    IN  /\ fut' = Append(fut, [task |-> tid, ttype |-> ttype,
                               state |-> "PENDING", ex |-> executor,
                               cb |-> cb, busy |-> FALSE,
                               result |-> NoResult])
        /\ queue' = [queue EXCEPT ![executor] = Append(@, f)]
        /\ active_tasks' = [active_tasks EXCEPT ![tid] = f]
        /\ loc' = [loc EXCEPT ![th] = IF nextpc = "idle" THEN NoLoc
                                      ELSE [@ EXCEPT !.tid = tid, !.ttype = ttype,
                                                     !.cb = cb, !.fid = f]]
        /\ pc' = [pc EXCEPT ![th] = nextpc]
        /\ UNCHANGED <<executor, nexec>>

\* submit_task: with no executor yet the caller enters start() (lines 120-121,
\* 33), otherwise it submits at once
submit_task(th, tid, ttype, cb, nextpc) ==
    IF executor = 0
    THEN /\ pc' = [pc EXCEPT ![th] = "start"]
         /\ loc' = [loc EXCEPT ![th].tid = tid, ![th].ttype = ttype,
                               ![th].cb = cb, ![th].then = nextpc]
         /\ UNCHANGED poolVars
    ELSE Enqueue(th, tid, ttype, cb, nextpc)

\* start(), line 36: the thread saw executor None and now builds its own pool
StartAssign(th) ==
    /\ pc[th] = "start"
    /\ nexec' = nexec + 1
    /\ executor' = nexec + 1
    /\ pc' = [pc EXCEPT ![th] = "submit"]
    /\ UNCHANGED <<tasks, queue, fut, active_tasks, loc, lastCancel, sched, files>>
    /\ UNCHANGED dbVars

\* submit_task after start() returned: lines 123-133 on the current executor
SubmitDo(th) ==
    /\ pc[th] = "submit"
    /\ Enqueue(th, loc[th].tid, loc[th].ttype, loc[th].cb, loc[th].then)
    /\ UNCHANGED <<tasks, lastCancel, sched, files>>
    /\ UNCHANGED dbVars

\* a worker thread of executor e takes the next work item
WorkerTake(e) ==
    /\ queue[e] # <<>>
    /\ Cardinality(Busy(e)) < max_workers
    /\ fut[Head(queue[e])].state = "PENDING"
    /\ fut' = [fut EXCEPT ![Head(queue[e])].state = "RUNNING",
                          ![Head(queue[e])].busy = TRUE]
    /\ queue' = [queue EXCEPT ![e] = Tail(@)]
    /\ UNCHANGED <<tasks, executor, nexec, active_tasks, pc, loc, lastCancel, sched, files>>
    /\ UNCHANGED dbVars

\* a worker thread finds the next work item cancelled and drops it
WorkerSkip(e) ==
    /\ queue[e] # <<>>
    /\ Cardinality(Busy(e)) < max_workers
    /\ fut[Head(queue[e])].state = "CANCELLED"
    /\ fut' = [fut EXCEPT ![Head(queue[e])].state = "CANCELLED_AND_NOTIFIED"]
    /\ queue' = [queue EXCEPT ![e] = Tail(@)]
    /\ UNCHANGED <<tasks, executor, nexec, active_tasks, pc, loc, lastCancel, sched, files>>
    /\ UNCHANGED dbVars

\* what the scanner, the external tool and the parser do in one run
Outcomes == {"ok", "malformed_xml", "nonzero", "timeout", "launch_exception",
             "no_scanner", "parse_exception"}

\* variant: no try/except, so an exception leaves the future without a
\* result dictionary
scan_worker_raising(task_id, ttype, outcome, batch) ==
    LET failed(e) == [task_id |-> task_id, success |-> FALSE, error |-> e,
                      devices |-> <<>>, parsed_data |-> "none"]
    IN  IF outcome \in {"no_scanner", "parse_exception"} THEN NoResult
        ELSE IF ttype \notin KnownTypes THEN failed("unknown_type")
        ELSE IF outcome = "ok"
        THEN [task_id |-> task_id, success |-> TRUE, error |-> "none",
              devices |-> batch, parsed_data |-> "hosts"]
        ELSE IF outcome = "malformed_xml"
        THEN [task_id |-> task_id, success |-> TRUE, error |-> "none",
              devices |-> <<>>, parsed_data |-> "error"]
        ELSE IF outcome = "timeout" THEN failed("timeout")
        ELSE IF outcome = "launch_exception" THEN failed("launch")
        ELSE failed("none")

\* _scan_worker: the result dictionary it returns for a task; batch is the
\* device list extract_devices builds from the tool's output
scan_worker(task_id, ttype, outcome, batch) ==
    LET failed(e) == [task_id |-> task_id, success |-> FALSE, error |-> e,
                      devices |-> <<>>, parsed_data |-> "none"]
    IN  IF outcome = "no_scanner" THEN failed("exception")
        ELSE IF ttype \notin KnownTypes THEN failed("unknown_type")
        ELSE IF outcome = "ok"
        THEN [task_id |-> task_id, success |-> TRUE, error |-> "none",
              devices |-> batch, parsed_data |-> "hosts"]
        ELSE IF outcome = "malformed_xml"
        THEN [task_id |-> task_id, success |-> TRUE, error |-> "none",
              devices |-> <<>>, parsed_data |-> "error"]
        ELSE IF outcome = "timeout" THEN failed("timeout")
        ELSE IF outcome = "launch_exception" THEN failed("launch")
        ELSE IF outcome = "parse_exception" THEN failed("exception")
        ELSE failed("none")

\* the work item of future f returns: Future.set_result
WorkerFinish(f, outcome, batch) ==
    /\ f \in 1..Len(fut)
    /\ fut[f].state = "RUNNING"
    /\ fut' = [fut EXCEPT ![f].state = "FINISHED",
                          ![f].busy = fut[f].cb,
                          ![f].result = scan_worker(fut[f].task, fut[f].ttype,
                                                    outcome, batch)]
    /\ UNCHANGED <<tasks, executor, nexec, queue, active_tasks, pc, loc, lastCancel, sched, files>>
    /\ UNCHANGED dbVars

\* the done-callback of a finished future returns and frees its worker thread
CallbackReturn(f) ==
    /\ f \in 1..Len(fut)
    /\ fut[f].state = "FINISHED"
    /\ fut[f].busy
    /\ fut' = [fut EXCEPT ![f].busy = FALSE]
    /\ UNCHANGED <<tasks, executor, nexec, queue, active_tasks, pc, loc, lastCancel, sched, files>>
    /\ UNCHANGED dbVars

\* the task_data dictionaries the client threads hold: the last id is of an
\* unknown type; and the one client that passes a completion callback
ClientTaskType(tid) == IF tid = MaxTasks THEN "bogus" ELSE "discovery"
ClientCallback(th) == th = "t2"

\* a client thread calls submit_task(task_data, callback)
ClientSubmit(th, tid) ==
    /\ th \in TriggerThreads
    /\ pc[th] = "idle"
    /\ Len(fut) + Cardinality(Submitting) < MaxFutures
    /\ submit_task(th, tid, ClientTaskType(tid), ClientCallback(th), "idle")
    /\ UNCHANGED <<tasks, lastCancel, sched, files>>
    /\ UNCHANGED dbVars

\* variant: only a finished future refuses to be cancelled
FutureCancel_running(state) == state # "FINISHED"

\* Future.cancel(): False for a running or finished future, True otherwise
FutureCancel(state) == state \notin {"RUNNING", "FINISHED"}

\* cancel_task(task_id), lines 212-219
cancel_task(id) ==
    IF active_tasks[id] # 0
    THEN LET f == active_tasks[id]
             cancelled == FutureCancel(fut[f].state)
         IN  /\ fut' = IF fut[f].state = "PENDING"
                       THEN [fut EXCEPT ![f].state = "CANCELLED"] ELSE fut
             /\ active_tasks' = IF cancelled
                                THEN [active_tasks EXCEPT ![id] = 0]
                                ELSE active_tasks
             /\ lastCancel' = IF cancelled THEN "True" ELSE "False"
    ELSE /\ lastCancel' = "False"
         /\ UNCHANGED <<fut, active_tasks>>

CancelTask(id) ==
    /\ cancel_task(id)
    /\ UNCHANGED <<tasks, executor, nexec, queue, pc, loc, sched, files>>
    /\ UNCHANGED dbVars

\* as_completed has yielded a future once it is finished, or cancelled and
\* dropped by a worker
Yielded(f) == fut[f].state \in {"FINISHED", "CANCELLED_AND_NOTIFIED"}

\* wait_for_completion, line 186: futures = list(self.active_tasks.values())
WaitBegin(th) ==
    /\ th = SweepThread
    /\ pc[th] = "idle"
    /\ loc' = [loc EXCEPT ![th] = [NoLoc EXCEPT
                  !.snap = {active_tasks[t] : t \in 1..MaxTasks} \ {0}]]
    /\ pc' = [pc EXCEPT ![th] = "waiting"]
    /\ UNCHANGED <<tasks, poolVars, lastCancel, sched, files>>
    /\ UNCHANGED dbVars

\* wait_for_completion, lines 188-196: the loop over as_completed ends, then
\* self.active_tasks.clear()
WaitReturn(th) ==
    /\ pc[th] = "waiting"
    /\ \A f \in loc[th].snap : Yielded(f)
    /\ active_tasks' = [t \in 1..MaxTasks |-> 0]
    /\ pc' = [pc EXCEPT ![th] = "idle"]
    /\ loc' = [loc EXCEPT ![th] = NoLoc]
    /\ UNCHANGED <<tasks, executor, nexec, queue, fut, lastCancel, sched, files>>
    /\ UNCHANGED dbVars

\* wait_for_completion, line 188: as_completed raises TimeoutError, which
\* nothing in wait_for_completion catches
WaitTimeout(th) ==
    /\ pc[th] = "waiting"
    /\ \E f \in loc[th].snap : ~Yielded(f)
    /\ pc' = [pc EXCEPT ![th] = "idle"]
    /\ loc' = [loc EXCEPT ![th] = [NoLoc EXCEPT !.raised = TRUE]]
    /\ UNCHANGED <<tasks, poolVars, lastCancel, sched, files>>
    /\ UNCHANGED dbVars

\* ------------------------------------------------------- ScanOrchestrator
\* ScanOrchestrator.start -> ScanWorkerPool.start
OrchestratorStart ==
    /\ executor = 0
    /\ nexec' = nexec + 1
    /\ executor' = nexec + 1
    /\ UNCHANGED <<tasks, queue, fut, active_tasks, pc, loc, lastCancel, sched, files>>
    /\ UNCHANGED dbVars

\* execute_task, lines 267-276: get_task, status running, submit_task;
\* bound is how many futures the model lets exist
ExecBeginWithin(th, bound) ==
    /\ pc[th] = "execute"
    /\ Len(fut) + Cardinality(Submitting) < bound
    /\ UNCHANGED <<lastCancel, sched, files>>
    /\ IF loc[th].tid \notin 1..Len(tasks)
       THEN /\ pc' = [pc EXCEPT ![th] = "next"]
            /\ UNCHANGED <<tasks, poolVars, loc>>
       ELSE /\ tasks' = update_task_status(tasks, loc[th].tid, "running", "none")
            /\ submit_task(th, loc[th].tid, tasks[loc[th].tid].ttype, FALSE, "wait")
    /\ UNCHANGED dbVars

ExecBegin(th) == ExecBeginWithin(th, MaxFutures)

\* _process_scan_result, lines 343-375: a failed result is only logged; a
\* successful one is saved and its device list is walked
process_scan_result(th, result, afterpc) ==
    IF ~result.success
    THEN /\ pc' = [pc EXCEPT ![th] = afterpc]
         /\ loc' = [loc EXCEPT ![th] = IF afterpc = "idle" THEN NoLoc ELSE @]
         /\ UNCHANGED <<scan_results, conn>>
    ELSE /\ scan_results' = save_scan_result(scan_results, result.task_id)
         /\ conn' = [conn EXCEPT ![th] = Len(scan_results) + 1]
         /\ IF result.devices = <<>>
            THEN /\ pc' = [pc EXCEPT ![th] = afterpc]
                 /\ loc' = [loc EXCEPT ![th] = IF afterpc = "idle" THEN NoLoc ELSE @]
            ELSE /\ pc' = [pc EXCEPT ![th] = "proc_device"]
                 /\ loc' = [loc EXCEPT ![th].devs = result.devices,
                                       ![th].after = afterpc,
                                       ![th].n = Len(result.devices),
                                       ![th].batch = result.devices]

\* _process_scan_result, lines 379-386: add_device for the next device
ProcDevice(th) ==
    /\ pc[th] = "proc_device"
    /\ LET d == Head(loc[th].devs)
           id == add_device_rowid(devices, d, conn[th])
       IN  /\ devices' = add_device(devices, d, now)
           /\ conn' = [conn EXCEPT ![th] = id]
           /\ loc' = [loc EXCEPT ![th].device_id = id, ![th].prts = PortsOf(d)]
           /\ pc' = [pc EXCEPT ![th] = IF PortsOf(d) # <<>> THEN "proc_port"
                                       ELSE "proc_event"]
    /\ UNCHANGED <<tasks, poolVars, lastCancel, sched, files, ports, events, scan_results, now>>

\* _process_scan_result, lines 389-402: add_port for the next port; a port
\* the store refuses is logged and skipped
ProcPort(th) ==
    /\ pc[th] = "proc_port"
    /\ LET p == Head(loc[th].prts)
           id == loc[th].device_id
       IN  /\ IF ForeignKeyOk(id)
              THEN /\ ports' = add_port(ports, id, p, now)
                   /\ conn' = [conn EXCEPT ![th] = add_port_rowid(ports, id, p, @)]
              ELSE UNCHANGED <<ports, conn>>
           /\ loc' = [loc EXCEPT ![th].prts = Tail(@)]
           /\ pc' = [pc EXCEPT ![th] = IF Tail(loc[th].prts) # <<>> THEN "proc_port"
                                       ELSE "proc_event"]
    /\ UNCHANGED <<tasks, poolVars, lastCancel, sched, files, devices, events, scan_results, now>>

\* _process_scan_result, lines 405-418: the device's event, then the next
\* device or the end of the batch
ProcEvent(th) ==
    /\ pc[th] = "proc_event"
    /\ events' = create_event(events, "device_discovered", loc[th].device_id)
    /\ conn' = [conn EXCEPT ![th] = Len(events) + 1]
    /\ IF Tail(loc[th].devs) # <<>>
       THEN /\ pc' = [pc EXCEPT ![th] = "proc_device"]
            /\ loc' = [loc EXCEPT ![th].devs = Tail(@), ![th].device_id = 0]
       ELSE /\ pc' = [pc EXCEPT ![th] = loc[th].after]
            /\ loc' = [loc EXCEPT ![th] = IF loc[th].after = "idle" THEN NoLoc
                                          ELSE [@ EXCEPT !.devs = <<>>,
                                                         !.device_id = 0,
                                                         !.n = 0,
                                                         !.batch = <<>>]]
    /\ UNCHANGED <<tasks, poolVars, lastCancel, sched, files, devices, ports, scan_results, now>>

\* the position in the batch of the device being processed
DeviceIndex(th) == loc[th].n - Len(loc[th].devs) + 1

\* variant: no try/except around one device, so the exception leaves the loop
\* and the outer handler of lines 420-421 ends the batch
DeviceRaises_aborting(th) ==
    /\ pc' = [pc EXCEPT ![th] = loc[th].after]
    /\ loc' = [loc EXCEPT ![th] = IF loc[th].after = "idle" THEN NoLoc
                                  ELSE [@ EXCEPT !.devs = <<>>, !.device_id = 0,
                                                 !.n = 0, !.batch = <<>>]]

\* _process_scan_result, lines 413-415: the exception of one device is logged
\* and the loop continues with the next device (failed records which devices
\* of the batch raised)
DeviceRaises(th) ==
    IF Tail(loc[th].devs) # <<>>
    THEN /\ pc' = [pc EXCEPT ![th] = "proc_device"]
         /\ loc' = [loc EXCEPT ![th].devs = Tail(@), ![th].device_id = 0,
                               ![th].failed = @ \cup {DeviceIndex(th)}]
    ELSE /\ pc' = [pc EXCEPT ![th] = loc[th].after]
         /\ loc' = [loc EXCEPT ![th] = IF loc[th].after = "idle" THEN NoLoc
                                       ELSE [@ EXCEPT !.devs = <<>>,
                                                      !.device_id = 0, !.n = 0,
                                                      !.batch = <<>>]]

\* add_device raises (get_cursor rolls the transaction back and re-raises)
ProcDeviceRaise(th) ==
    /\ pc[th] = "proc_device"
    /\ DeviceRaises(th)
    /\ UNCHANGED <<tasks, poolVars, lastCancel, sched, files>>
    /\ UNCHANGED dbVars

\* create_event raises (get_cursor rolls the transaction back and re-raises)
ProcEventRaise(th) ==
    /\ pc[th] = "proc_event"
    /\ DeviceRaises(th)
    /\ UNCHANGED <<tasks, poolVars, lastCancel, sched, files>>
    /\ UNCHANGED dbVars

\* execute_task, lines 278-283 and 293-296: future.result() returns the
\* result, which is processed, or raises CancelledError
ExecResult(th) ==
    /\ pc[th] = "wait"
    /\ fut[loc[th].fid].state \in {"FINISHED", "CANCELLED", "CANCELLED_AND_NOTIFIED"}
    /\ IF fut[loc[th].fid].state = "FINISHED"
       THEN /\ process_scan_result(th, fut[loc[th].fid].result, "status")
            /\ UNCHANGED tasks
       ELSE /\ tasks' = update_task_status(tasks, loc[th].tid, "failed", "cancelled")
            /\ pc' = [pc EXCEPT ![th] = "next"]
            /\ UNCHANGED <<loc, scan_results, conn>>
    /\ UNCHANGED <<poolVars, lastCancel, sched, files, devices, ports, events, now>>

\* execute_task, lines 285-291: the final status
ExecStatus(th) ==
    /\ pc[th] = "status"
    /\ tasks' = IF fut[loc[th].fid].result.success
                THEN update_task_status(tasks, loc[th].tid, "completed", "none")
                ELSE update_task_status(tasks, loc[th].tid, "failed",
                                        fut[loc[th].fid].result.error)
    /\ pc' = [pc EXCEPT ![th] = "next"]
    /\ UNCHANGED <<poolVars, loc, lastCancel, sched, files>>
    /\ UNCHANGED dbVars

\* --------------------------------------------------------- ScanScheduler
\* _run_discovery_scan / _run_scan: create the task, then execute_task
TriggerFire(th, ttype) ==
    /\ th \in TriggerThreads
    /\ pc[th] = "idle"
    /\ Len(tasks) < MaxTasks
    /\ tasks' = create_scan_task(ttype, "NULL", FALSE)
    /\ pc' = [pc EXCEPT ![th] = "execute"]
    /\ loc' = [loc EXCEPT ![th] = [NoLoc EXCEPT !.tid = Len(tasks) + 1]]
    /\ UNCHANGED <<poolVars, lastCancel, sched, files>>
    /\ UNCHANGED dbVars

\* a schedule_one_time_scan that executes at once, as _run_scan does
ScheduleOneTime_executing(ttype, due) ==
    /\ Len(tasks) < MaxTasks
    /\ pc["t1"] = "idle"
    /\ tasks' = create_scan_task(ttype, "text", due)
    /\ pc' = [pc EXCEPT !["t1"] = "execute"]
    /\ loc' = [loc EXCEPT !["t1"] = [NoLoc EXCEPT !.tid = Len(tasks) + 1]]
    /\ UNCHANGED <<poolVars, lastCancel, sched, files>>
    /\ UNCHANGED dbVars

\* schedule_one_time_scan: a pending row, due now or at a later run_date
ScheduleOneTime(ttype, due) ==
    /\ Len(tasks) < MaxTasks
    /\ tasks' = create_scan_task(ttype, "text", due)
    /\ UNCHANGED <<poolVars, pc, loc, lastCancel, sched, files>>
    /\ UNCHANGED dbVars

\* the clock passes a task's scheduled_at
TimeElapses(id) ==
    /\ id \in 1..Len(tasks)
    /\ tasks[id].scheduled_at # "NULL"
    /\ ~tasks[id].due
    /\ tasks' = [tasks EXCEPT ![id].due = TRUE]
    /\ UNCHANGED <<poolVars, pc, loc, lastCancel, sched, files>>
    /\ UNCHANGED dbVars

\* _process_pending_tasks, lines 280-283: read the backlog
SweepRead(th) ==
    /\ th = SweepThread
    /\ pc[th] = "idle"
    /\ \E sel \in get_pending_tasks(tasks, SweepLimit) :
          /\ sel # <<>>
          /\ loc' = [loc EXCEPT ![th] = [NoLoc EXCEPT !.todo = sel]]
    /\ pc' = [pc EXCEPT ![th] = "next"]
    /\ UNCHANGED <<tasks, poolVars, lastCancel, sched, files>>
    /\ UNCHANGED dbVars

\* the caller goes on: the sweep's loop takes its next task, a firing returns
CallerNext(th) ==
    /\ pc[th] = "next"
    /\ IF loc[th].todo # <<>>
       THEN /\ loc' = [loc EXCEPT ![th].tid = Head(loc[th].todo),
                                  ![th].todo = Tail(loc[th].todo)]
            /\ pc' = [pc EXCEPT ![th] = "execute"]
       ELSE /\ loc' = [loc EXCEPT ![th] = NoLoc]
            /\ pc' = [pc EXCEPT ![th] = "idle"]
    /\ UNCHANGED <<tasks, poolVars, lastCancel, sched, files>>
    /\ UNCHANGED dbVars

Next ==
    \/ OrchestratorStart
    \/ \E th \in Threads, ty \in TaskTypes : TriggerFire(th, ty)
    \/ \E ty \in TaskTypes, due \in BOOLEAN : ScheduleOneTime(ty, due)
    \/ \E id \in 1..MaxTasks : TimeElapses(id)
    \/ \E th \in Threads : SweepRead(th)
    \/ \E th \in Threads : CallerNext(th)
    \/ \E th \in Threads : ExecBegin(th)
    \/ \E th \in Threads : StartAssign(th)
    \/ \E th \in Threads : SubmitDo(th)
    \/ \E e \in ExecIds : WorkerTake(e)
    \/ \E f \in 1..MaxFutures, o \in Outcomes : WorkerFinish(f, o, <<>>)
    \/ \E th \in Threads : ExecResult(th)
    \/ \E th \in Threads : ExecStatus(th)

Spec == Init /\ [][Next]_vars

\* the worker pool alone, driven by client threads
NextPool ==
    \/ OrchestratorStart
    \/ \E th \in Threads, id \in 1..MaxTasks : ClientSubmit(th, id)
    \/ \E th \in Threads : StartAssign(th)
    \/ \E th \in Threads : SubmitDo(th)
    \/ \E e \in ExecIds : WorkerTake(e)
    \/ \E e \in ExecIds : WorkerSkip(e)
    \/ \E f \in 1..MaxFutures, o \in Outcomes : WorkerFinish(f, o, <<>>)
    \/ \E f \in 1..MaxFutures : CallbackReturn(f)
    \/ \E id \in 1..MaxTasks : CancelTask(id)

SpecPool == Init /\ [][NextPool]_vars

\* the worker pool with a thread in wait_for_completion
NextWait ==
    \/ NextPool
    \/ \E th \in Threads : WaitBegin(th)
    \/ \E th \in Threads : WaitReturn(th)
    \/ \E th \in Threads : WaitTimeout(th)

SpecWait == Init /\ [][NextWait]_vars

\* ---------------------------------------------------------- reconciliation
ThreadTag(th) == IF th = "t1" THEN "A" ELSE "B"
ScanDicts(th) ==
    {d \in DeviceDicts : d.shape \in {"host", "scan"} /\ d.tag = ThreadTag(th)}

\* the device lists a scan hands to _process_scan_result
Batches(th) ==
    UNION {[1..n -> ScanDicts(th)] : n \in 1..MaxBatch}

\* a pipeline reaches _process_scan_result with a successful result
Reconcile(th, batch) ==
    /\ th \in TriggerThreads
    /\ pc[th] = "idle"
    /\ Len(scan_results) < MaxScans
    /\ process_scan_result(th, [task_id |-> 0, success |-> TRUE, error |-> "none",
                                devices |-> batch, parsed_data |-> "hosts"],
                           "idle")
    /\ UNCHANGED <<tasks, poolVars, lastCancel, sched, files, devices, ports, events, now>>

\* the dictionaries a direct caller of add_device passes
DirectDicts == {d \in DeviceDicts : d.shape \in {"named", "bare"} /\ d.tag = "B"}

\* a direct caller of add_device
AddDeviceCall(th, d) ==
    /\ th = SweepThread
    /\ pc[th] = "idle"
    /\ devices' = add_device(devices, d, now)
    /\ conn' = [conn EXCEPT ![th] = add_device_rowid(devices, d, @)]
    /\ UNCHANGED <<tasks, poolVars, lastCancel, sched, files, pc, loc, ports, events,
                   scan_results, now>>

\* the clock advances
Tick ==
    /\ now < MaxClock
    /\ now' = now + 1
    /\ UNCHANGED <<tasks, poolVars, lastCancel, sched, files, pc, loc, devices, ports, events,
                   scan_results, conn>>

NextDB ==
    \/ \E th \in Threads : \E batch \in Batches(th) : Reconcile(th, batch)
    \/ \E th \in Threads, d \in DirectDicts : AddDeviceCall(th, d)
    \/ \E th \in Threads : ProcDevice(th)
    \/ \E th \in Threads : ProcPort(th)
    \/ \E th \in Threads : ProcEvent(th)
    \/ Tick

SpecDB == Init /\ [][NextDB]_vars

\* ------------------------------------------------- one batch with failures
MaxDevices == 2

\* the device lists of up to MaxDevices hosts
LongBatches(th) ==
    UNION {[1..n -> ScanDicts(th)] : n \in 1..MaxDevices}

\* the first pipeline reaches _process_scan_result with a successful result
ReconcileBatch(th, batch) ==
    /\ th = "t1"
    /\ pc[th] = "idle"
    /\ scan_results = <<>>
    /\ process_scan_result(th, [task_id |-> 0, success |-> TRUE, error |-> "none",
                                devices |-> batch, parsed_data |-> "hosts"],
                           "idle")
    /\ UNCHANGED <<tasks, poolVars, lastCancel, sched, files, devices, ports, events, now>>

NextBatch ==
    \/ \E th \in Threads : \E batch \in LongBatches(th) : ReconcileBatch(th, batch)
    \/ \E th \in Threads, d \in DirectDicts : AddDeviceCall(th, d)
    \/ \E th \in Threads : ProcDevice(th)
    \/ \E th \in Threads : ProcDeviceRaise(th)
    \/ \E th \in Threads : ProcPort(th)
    \/ \E th \in Threads : ProcEvent(th)
    \/ \E th \in Threads : ProcEventRaise(th)

SpecBatch == Init /\ [][NextBatch]_vars

\* worker threads keep running, and every scan returns or times out
FairPool ==
    /\ SpecPool
    /\ \A e \in ExecIds : WF_vars(WorkerTake(e)) /\ WF_vars(WorkerSkip(e))
    /\ \A f \in 1..MaxFutures :
          WF_vars(\E o \in Outcomes : WorkerFinish(f, o, <<>>)) /\ WF_vars(CallbackReturn(f))

\* the backlog alone: one-time scans are scheduled, their run_date passes,
\* and the 30 s sweep job executes what it reads
NextSweep ==
    \/ OrchestratorStart
    \/ \E ty \in TaskTypes, due \in BOOLEAN : ScheduleOneTime(ty, due)
    \/ \E id \in 1..MaxTasks : TimeElapses(id)
    \/ SweepRead(SweepThread)
    \/ CallerNext(SweepThread)
    \/ ExecBegin(SweepThread)
    \/ StartAssign(SweepThread)
    \/ SubmitDo(SweepThread)
    \/ \E e \in ExecIds : WorkerTake(e)
    \/ \E f \in 1..MaxFutures, o \in Outcomes : WorkerFinish(f, o, <<>>)
    \/ ExecResult(SweepThread)
    \/ ExecStatus(SweepThread)

SpecSweep == Init /\ [][NextSweep]_vars

\* the interval trigger keeps firing the sweep job, the job's thread runs
\* on, worker threads take queued work, and every scan returns
FairSweep ==
    /\ SpecSweep
    /\ WF_vars(SweepRead(SweepThread))
    /\ WF_vars(CallerNext(SweepThread))
    /\ WF_vars(ExecBegin(SweepThread))
    /\ WF_vars(StartAssign(SweepThread))
    /\ WF_vars(SubmitDo(SweepThread))
    /\ WF_vars(ExecResult(SweepThread))
    /\ WF_vars(ExecStatus(SweepThread))
    /\ \A e \in ExecIds : WF_vars(WorkerTake(e))
    /\ \A f \in 1..MaxFutures : WF_vars(\E o \in Outcomes : WorkerFinish(f, o, <<>>))

\* the backlog query alone, on any backlog: rows of both priorities, created
\* in the same or in later seconds, pending or finished, with and without a
\* scheduled_at
MaxRows == 3
MaxStamp == 2
MaxLimit == 2
Priorities == {1, DefaultPriority}

TaskRows ==
    {r \in [ttype : {"discovery"}, status : {"pending", "completed"},
            priority : Priorities, created_at : 1..MaxStamp,
            scheduled_at : {"NULL", "text"}, due : BOOLEAN, error : {"none"}] :
        r.scheduled_at = "NULL" => ~r.due}

\* create_scan_task with the caller's priority, status and scheduled_at, in
\* the second of the newest row or a later one
CreateTask(r) ==
    /\ Len(tasks) < MaxRows
    /\ \A th \in Threads : pc[th] = "idle"
    /\ tasks # <<>> => tasks[Len(tasks)].created_at <= r.created_at
    /\ tasks' = Append(tasks, r)
    /\ UNCHANGED <<poolVars, pc, loc, lastCancel, sched, files>>
    /\ UNCHANGED dbVars

\* a caller runs get_pending_tasks(limit) and holds the list it returned
QueryPending(th, limit) ==
    /\ pc[th] = "idle"
    /\ \E sel \in get_pending_tasks(tasks, limit) :
          loc' = [loc EXCEPT ![th] = [NoLoc EXCEPT !.todo = sel, !.n = limit]]
    /\ pc' = [pc EXCEPT ![th] = "queried"]
    /\ UNCHANGED <<tasks, poolVars, lastCancel, sched, files>>
    /\ UNCHANGED dbVars

QueryReturn(th) ==
    /\ pc[th] = "queried"
    /\ pc' = [pc EXCEPT ![th] = "idle"]
    /\ loc' = [loc EXCEPT ![th] = NoLoc]
    /\ UNCHANGED <<tasks, poolVars, lastCancel, sched, files>>
    /\ UNCHANGED dbVars

NextQuery ==
    \/ \E r \in TaskRows : CreateTask(r)
    \/ \E limit \in 0..MaxLimit : QueryPending(SweepThread, limit)
    \/ QueryReturn(SweepThread)

SpecQuery == Init /\ [][NextQuery]_vars

\* ------------------------------------------------ scans of several hosts
\* pipelines reconcile scans of up to MaxDevices hosts, one scan after or
\* beside the other
NextRescan ==
    \/ \E th \in TriggerThreads : \E batch \in LongBatches(th) : Reconcile(th, batch)
    \/ \E th \in TriggerThreads : ProcDevice(th)
    \/ \E th \in TriggerThreads : ProcPort(th)
    \/ \E th \in TriggerThreads : ProcEvent(th)

SpecRescan == Init /\ [][NextRescan]_vars

\* ------------------------------------------- execute_pending_tasks
\* the thread that calls execute_pending_tasks
DispatchThread == "t1"

\* execute_pending_tasks, lines 305-311: the pending tasks are read
DispatchRead(th, limit) ==
    /\ pc[th] = "idle"
    /\ \E sel \in get_pending_tasks(tasks, limit) :
          /\ sel # <<>>
          /\ loc' = [loc EXCEPT ![th] = [NoLoc EXCEPT !.todo = sel]]
    /\ pc' = [pc EXCEPT ![th] = "dispatch"]
    /\ UNCHANGED <<tasks, poolVars, lastCancel, sched, files>>
    /\ UNCHANGED dbVars

\* execute_pending_tasks, lines 314-316: the next task is set to running
DispatchStatus(th) ==
    /\ pc[th] = "dispatch"
    /\ loc[th].todo # <<>>
    /\ tasks' = update_task_status(tasks, Head(loc[th].todo), "running", "none")
    /\ loc' = [loc EXCEPT ![th].tid = Head(loc[th].todo), ![th].todo = Tail(loc[th].todo)]
    /\ pc' = [pc EXCEPT ![th] = "dispatch_submit"]
    /\ UNCHANGED <<poolVars, lastCancel, sched, files>>
    /\ UNCHANGED dbVars

\* execute_pending_tasks, lines 318-322: submit_task with the callback
DispatchSubmit(th) ==
    /\ pc[th] = "dispatch_submit"
    /\ Len(fut) < MaxFutures
    /\ submit_task(th, loc[th].tid, tasks[loc[th].tid].ttype, TRUE, "dispatch")
    /\ UNCHANGED <<tasks, lastCancel, sched, files>>
    /\ UNCHANGED dbVars

\* execute_pending_tasks, line 325: the futures are returned
DispatchReturn(th) ==
    /\ pc[th] = "dispatch"
    /\ loc[th].todo = <<>>
    /\ pc' = [pc EXCEPT ![th] = "idle"]
    /\ loc' = [loc EXCEPT ![th] = NoLoc]
    /\ UNCHANGED <<tasks, poolVars, lastCancel, sched, files>>
    /\ UNCHANGED dbVars

\* _task_completed_callback, lines 327-339, on the worker thread that
\* finished the future: the result is processed and the final status
\* written. The done-callback of line 127 is lambda f: callback(f.result()):
\* for a cancelled future f.result() raises CancelledError inside it, which
\* the future logs and drops, so _task_completed_callback is not reached
TaskCompletedCallback(f) ==
    /\ f \in 1..Len(fut)
    /\ fut[f].cb
    /\ fut[f].state = "FINISHED"
    /\ fut[f].busy
    /\ tasks' = IF fut[f].result.success
                THEN update_task_status(tasks, fut[f].task, "completed", "none")
                ELSE update_task_status(tasks, fut[f].task, "failed", fut[f].result.error)
    /\ scan_results' = IF fut[f].result.success
                       THEN save_scan_result(scan_results, fut[f].task)
                       ELSE scan_results
    /\ fut' = [fut EXCEPT ![f].busy = FALSE]
    /\ UNCHANGED <<executor, nexec, queue, active_tasks, pc, loc, lastCancel, sched, files>>
    /\ UNCHANGED <<devices, ports, events, conn, now>>

NextDispatch ==
    \/ OrchestratorStart
    \/ \E ty \in TaskTypes, due \in BOOLEAN : ScheduleOneTime(ty, due)
    \/ \E id \in 1..MaxTasks : TimeElapses(id)
    \/ DispatchRead(DispatchThread, SweepLimit)
    \/ DispatchStatus(DispatchThread)
    \/ DispatchSubmit(DispatchThread)
    \/ DispatchReturn(DispatchThread)
    \/ StartAssign(DispatchThread)
    \/ SubmitDo(DispatchThread)
    \/ \E e \in ExecIds : WorkerTake(e)
    \/ \E e \in ExecIds : WorkerSkip(e)
    \/ \E f \in 1..MaxFutures, o \in Outcomes : WorkerFinish(f, o, <<>>)
    \/ \E f \in 1..MaxFutures : TaskCompletedCallback(f)
    \/ \E id \in 1..MaxTasks : CancelTask(id)

SpecDispatch == Init /\ [][NextDispatch]_vars

\* the dispatching thread runs on, worker threads take queued work, every
\* scan returns and every callback that is called returns; nothing obliges
\* anyone to cancel
FairDispatch ==
    /\ SpecDispatch
    /\ WF_vars(DispatchStatus(DispatchThread))
    /\ WF_vars(DispatchSubmit(DispatchThread))
    /\ WF_vars(DispatchReturn(DispatchThread))
    /\ WF_vars(StartAssign(DispatchThread))
    /\ WF_vars(SubmitDo(DispatchThread))
    /\ \A e \in ExecIds : WF_vars(WorkerTake(e)) /\ WF_vars(WorkerSkip(e))
    /\ \A f \in 1..MaxFutures :
          /\ WF_vars(\E o \in Outcomes : WorkerFinish(f, o, <<>>))
          /\ WF_vars(TaskCompletedCallback(f))

\* ------------------------------------------- one job, max_instances = 1
MaxJobFutures == 3
\* the pool thread that runs the job's firings: with max_instances = 1 the
\* executor refuses a firing while the previous one has not returned, so
\* the firings of one job are one thread's successive calls
JobThread == "t1"

NextJob ==
    \/ OrchestratorStart
    \/ TriggerFire(JobThread, "discovery")
    \/ SweepRead(SweepThread)
    \/ \E th \in {JobThread, SweepThread} : CallerNext(th)
    \/ \E th \in {JobThread, SweepThread} : ExecBeginWithin(th, MaxJobFutures)
    \/ \E th \in {JobThread, SweepThread} : StartAssign(th)
    \/ \E th \in {JobThread, SweepThread} : SubmitDo(th)
    \/ \E e \in ExecIds : WorkerTake(e)
    \/ \E f \in 1..MaxJobFutures, o \in {"ok", "timeout"} : WorkerFinish(f, o, <<>>)
    \/ \E th \in {JobThread, SweepThread} : ExecResult(th)
    \/ \E th \in {JobThread, SweepThread} : ExecStatus(th)

SpecJob == Init /\ [][NextJob]_vars

\* ------------------------------------------------------------ NmapScanner
MaxFiles == 3
\* timeout arguments: the default of discovery_scan and of scan
Timeouts == {300, 600}
\* seconds a run takes that ends before its timeout
Elapsed == {7}
\* what the external tool does in one run, and what it leaves in the file
Runs == {"zero", "zero_no_xml", "nonzero", "timeout", "launch_exception"}

\* scan(), lines 148-217: the dictionary each branch returns; a result of
\* the normal branch has no 'error' entry, one of the exception branch has
\* no 'duration'
scan_result(run, timeout, elapsed) ==
    IF run = "timeout"
    THEN [success |-> FALSE, error |-> "Scan timeout after " \o ToString(timeout) \o "s",
          duration |-> timeout, xml_output |-> "none"]
    ELSE IF run = "launch_exception"
    THEN [success |-> FALSE, error |-> "exception text", duration |-> 0,
          xml_output |-> "none"]
    ELSE [success |-> run \in {"zero", "zero_no_xml"}, error |-> "none",
          duration |-> elapsed,
          xml_output |-> IF run = "zero" THEN "xml" ELSE "none"]

ScanFrame == UNCHANGED <<tasks, poolVars, lastCancel, sched, dbVars>>

\* scan(), lines 143-146: tempfile.mkstemp creates the scratch file
ScanBegin(th, timeout) ==
    /\ pc[th] = "idle"
    /\ files < MaxFiles
    /\ files' = files + 1
    /\ pc' = [pc EXCEPT ![th] = "scan_run"]
    /\ loc' = [loc EXCEPT ![th] = [NoLoc EXCEPT !.timeout = timeout]]
    /\ ScanFrame

\* scan(), lines 148-217: subprocess.run and the branch that builds the
\* result
ScanRun(th, run, elapsed) ==
    /\ pc[th] = "scan_run"
    /\ loc' = [loc EXCEPT ![th].scan_result = scan_result(run, loc[th].timeout, elapsed)]
    /\ pc' = [pc EXCEPT ![th] = "scan_finally"]
    /\ UNCHANGED files
    /\ ScanFrame

\* variant: the file is removed on the normal branch only
unlink_normal_only(th, unlinked) ==
    IF unlinked /\ loc[th].scan_result.error = "none" THEN files - 1 ELSE files

\* scan(), lines 219-225: os.unlink removes the file, or raises and the
\* exception is logged and dropped
unlink(th, unlinked) == IF unlinked THEN files - 1 ELSE files

ScanFinally(th, unlinked) ==
    /\ pc[th] = "scan_finally"
    /\ files' = unlink(th, unlinked)
    /\ pc' = [pc EXCEPT ![th] = "scan_done"]
    /\ loc' = [loc EXCEPT ![th].raised = ~unlinked]
    /\ ScanFrame

\* scan() has returned its result to the caller
ScanReturn(th) ==
    /\ pc[th] = "scan_done"
    /\ pc' = [pc EXCEPT ![th] = "idle"]
    /\ loc' = [loc EXCEPT ![th] = NoLoc]
    /\ UNCHANGED files
    /\ ScanFrame

NextScan ==
    \/ \E th \in Threads, t \in Timeouts : ScanBegin(th, t)
    \/ \E th \in Threads, r \in Runs, e \in Elapsed : ScanRun(th, r, e)
    \/ \E th \in Threads, u \in BOOLEAN : ScanFinally(th, u)
    \/ \E th \in Threads : ScanReturn(th)

SpecScan == Init /\ [][NextScan]_vars

\* ------------------------------------------------------------- NmapParser
MaxHosts == 2
MaxPorts == 2
\* the thread that parses: the pool worker running _scan_worker
ParserThread == "t1"
\* the payload handed to parse_xml: the empty string, a text that is not
\* well-formed XML, or a document with its <host> elements
PayloadKinds == {"empty", "not_xml", "xml"}
\* <status state=...> of a host; "nostatus" is a host without that element
HostStatuses == {"up", "down", "nostatus"}
\* addr of the <address addrtype="mac"> element, character by character;
\* NoMac is a host without that element
NoMac == <<>>
MACs == {<<"0", "0", ":", "1", "a", ":", "2", "b", ":", "3", "c", ":", "4", "d", ":", "5", "e">>,
         <<"A", "A", ":", "B", "B", ":", "C", "C", ":", "D", "D", ":", "E", "E", ":", "F", "F">>}
\* accuracy of the host's <osmatch>: "absent" is a host without <os>,
\* "high" an accuracy attribute that is not a number
Accuracies == {"absent", "95", "high"}
PortStates == {"open", "closed"}
\* the ipv4 address of the i-th host of a document
HostIp == <<"ip1", "ip2", "ip3", "ip4">>

PortLists == UNION {[1..n -> PortStates] : n \in 0..MaxPorts}
Hosts(i) == [status : HostStatuses, ip_address : {HostIp[i]}, mac_address : MACs \cup {NoMac},
             accuracy : Accuracies, ports : PortLists]

\* _parse_os, lines 180-232: max(matches, key=lambda x: int(x['accuracy']))
\* raises ValueError when the accuracy is not a number
parse_os_raises(h) == h.accuracy = "high"

\* _parse_host, lines 95-145: None for a host without <status>, else the
\* host's dictionary
parse_host(h) == [status |-> h.status, ip_address |-> h.ip_address,
                  mac_address |-> h.mac_address, os |-> h.accuracy, ports |-> h.ports]

ErrorObject == [error |-> TRUE, hosts |-> <<>>]

\* variant: a host that cannot be parsed is skipped and the rest returned
parse_xml_skipping(xml) ==
    IF xml.kind # "xml" THEN ErrorObject
    ELSE LET ok == SelectSeq(xml.hosts, LAMBDA h : h.status # "nostatus" /\ ~parse_os_raises(h))
         IN  [error |-> FALSE, hosts |-> [i \in 1..Len(ok) |-> parse_host(ok[i])]]

\* parse_xml, lines 21-66: the error dictionary for an empty text, for a
\* ParseError and for any exception raised while a host is parsed; else
\* the hosts that have a <status>, in document order
parse_xml(xml) ==
    IF xml.kind = "empty" THEN ErrorObject
    ELSE IF xml.kind = "not_xml" THEN ErrorObject
    ELSE LET seen == SelectSeq(xml.hosts, LAMBDA h : h.status # "nostatus")
         IN  IF \E i \in 1..Len(seen) : parse_os_raises(seen[i])
             THEN ErrorObject
             ELSE [error |-> FALSE, hosts |-> [i \in 1..Len(seen) |-> parse_host(seen[i])]]

\* str.upper() on the characters a MAC is written with
upper(c) ==
    CASE c = "a" -> "A" [] c = "b" -> "B" [] c = "c" -> "C"
      [] c = "d" -> "D" [] c = "e" -> "E" [] c = "f" -> "F"
      [] OTHER -> c

\* variant: the oui keeps the case the MAC was written in
oui_of_as_written(mac) ==
    SelectSeq(SubSeq(mac, 1, IF Len(mac) < 8 THEN Len(mac) ELSE 8), LAMBDA c : c # ":")

\* extract_devices, line 373: mac[:8].replace(':', '').upper()
oui_of(mac) ==
    LET cut == SelectSeq(SubSeq(mac, 1, IF Len(mac) < 8 THEN Len(mac) ELSE 8),
                         LAMBDA c : c # ":")
    IN  [i \in 1..Len(cut) |-> upper(cut[i])]

\* len([p for p in ports if p.get('state') == 'open'])
open_count(prts) == Len(SelectSeq(prts, LAMBDA st : st = "open"))

\* extract_devices, lines 361-406, for one host: keys holds the optional
\* entries the dictionary has ('oui' only with a MAC, 'open_ports_count'
\* only with a non-empty port list)
device_of(h) ==
    [ip_address |-> h.ip_address, mac_address |-> h.mac_address, status |-> h.status,
     keys |-> (IF h.mac_address # NoMac THEN {"oui"} ELSE {})
              \cup (IF h.os # "absent" THEN {"os_accuracy"} ELSE {})
              \cup (IF h.ports # <<>> THEN {"ports", "open_ports_count"} ELSE {}),
     oui |-> IF h.mac_address # NoMac THEN oui_of(h.mac_address) ELSE <<>>,
     open_ports_count |-> IF h.ports # <<>> THEN open_count(h.ports) ELSE 0]

\* extract_devices, lines 345-408: parsed_data.get('hosts', []) filtered
\* on status 'up', in order
extract_devices(parsed_data) ==
    LET up == SelectSeq(parsed_data.hosts, LAMBDA h : h.status = "up")
    IN  [i \in 1..Len(up) |-> device_of(up[i])]

ParseFrame == UNCHANGED <<tasks, poolVars, lastCancel, sched, files, dbVars>>

\* the external tool writes one more <host> into its output
AddHost(th, h) ==
    /\ pc[th] = "idle"
    /\ loc[th].xml_output.kind = "xml"
    /\ Len(loc[th].xml_output.hosts) < MaxHosts
    /\ loc' = [loc EXCEPT ![th].xml_output.hosts = Append(@, h)]
    /\ UNCHANGED pc
    /\ ParseFrame

\* the output is empty, or is cut so that it is no longer well-formed
Garble(th, kind) ==
    /\ pc[th] = "idle"
    /\ loc[th].xml_output.kind = "xml"
    /\ kind # "xml"
    /\ loc' = [loc EXCEPT ![th].xml_output =
                   [kind |-> kind,
                    hosts |-> IF kind = "empty" THEN <<>> ELSE @.hosts]]
    /\ UNCHANGED pc
    /\ ParseFrame

\* _scan_worker, line 84: parsed_data = parser.parse_xml(xml_output)
ParseXml(th) ==
    /\ pc[th] = "idle"
    /\ loc' = [loc EXCEPT ![th].parsed_data = parse_xml(loc[th].xml_output)]
    /\ pc' = [pc EXCEPT ![th] = "parsed"]
    /\ ParseFrame

\* _scan_worker, line 88: devices = parser.extract_devices(parsed_data)
ExtractDevices(th) ==
    /\ pc[th] = "parsed"
    /\ loc' = [loc EXCEPT ![th].extracted = extract_devices(loc[th].parsed_data)]
    /\ pc' = [pc EXCEPT ![th] = "extracted"]
    /\ ParseFrame

\* the worker returns; the next scan starts from a fresh output
ParseReturn(th) ==
    /\ pc[th] = "extracted"
    /\ pc' = [pc EXCEPT ![th] = "idle"]
    /\ loc' = [loc EXCEPT ![th] = NoLoc]
    /\ ParseFrame

NextParse ==
    \/ \E h \in Hosts(Len(loc[ParserThread].xml_output.hosts) + 1) : AddHost(ParserThread, h)
    \/ \E k \in PayloadKinds \ {"xml"} : Garble(ParserThread, k)
    \/ ParseXml(ParserThread)
    \/ ExtractDevices(ParserThread)
    \/ ParseReturn(ParserThread)

SpecParse == Init /\ [][NextParse]_vars

\* ------------------------------------------------- NmapParser._parse_os
MaxMatches == 3
\* the accuracy attribute of an <osmatch>, character by character; the
\* last one is not a number
MatchAccuracies == {<<"9">>, <<"9", "5">>, <<"0", "9", "5">>, <<"1", "0", "0">>,
                    <<"h", "i", "g", "h">>}
Digits == {"0", "1", "2", "3", "4", "5", "6", "7", "8", "9"}

digit(c) ==
    CASE c = "0" -> 0 [] c = "1" -> 1 [] c = "2" -> 2 [] c = "3" -> 3 [] c = "4" -> 4
      [] c = "5" -> 5 [] c = "6" -> 6 [] c = "7" -> 7 [] c = "8" -> 8 [] c = "9" -> 9

\* int(text) raises ValueError
int_raises(text) == text = <<>> \/ \E k \in 1..Len(text) : text[k] \notin Digits

\* int(text) of a decimal text
RECURSIVE int(_)
int(text) ==
    IF text = <<>> THEN 0
    ELSE 10 * int(SubSeq(text, 1, Len(text) - 1)) + digit(text[Len(text)])

\* variant: a later candidate of equal accuracy replaces the best so far
RECURSIVE max_keeping_last(_, _, _)
max_keeping_last(matches, i, best) ==
    IF i > Len(matches) THEN best
    ELSE max_keeping_last(matches, i + 1,
                          IF int(matches[i]) >= int(matches[best]) THEN i ELSE best)

\* max(matches, key=lambda x: int(x['accuracy'])), line 222: the built-in
\* walks the list and replaces its best only by a strictly greater key;
\* best is the index of the best so far
RECURSIVE max(_, _, _)
max(matches, i, best) ==
    IF i > Len(matches) THEN best
    ELSE max(matches, i + 1, IF int(matches[i]) > int(matches[best]) THEN i ELSE best)

OsFrame == UNCHANGED <<tasks, poolVars, lastCancel, sched, files, dbVars>>

\* _parse_os, lines 192-218: one more <osmatch> is appended to matches
AddMatch(th, accuracy) ==
    /\ pc[th] = "idle"
    /\ Len(loc[th].matches) < MaxMatches
    /\ loc' = [loc EXCEPT ![th].matches = Append(@, accuracy)]
    /\ UNCHANGED pc
    /\ OsFrame

\* _parse_os, lines 221-223: best_match is chosen, or int() raises
BestMatch(th) ==
    /\ pc[th] = "idle"
    /\ loc[th].matches # <<>>
    /\ pc' = [pc EXCEPT ![th] = "os_parsed"]
    /\ loc' = IF \E k \in 1..Len(loc[th].matches) : int_raises(loc[th].matches[k])
              THEN [loc EXCEPT ![th].raised = TRUE]
              ELSE [loc EXCEPT ![th].best_match = max(loc[th].matches, 2, 1)]
    /\ OsFrame

\* _parse_os returns
OsReturn(th) ==
    /\ pc[th] = "os_parsed"
    /\ pc' = [pc EXCEPT ![th] = "idle"]
    /\ loc' = [loc EXCEPT ![th] = NoLoc]
    /\ OsFrame

NextOs ==
    \/ \E a \in MatchAccuracies : AddMatch(ParserThread, a)
    \/ BestMatch(ParserThread)
    \/ OsReturn(ParserThread)

SpecOs == Init /\ [][NextOs]_vars

\* ------------------------------------------------------ DeviceRecognition
\* A text field of device_data is the set of vocabulary words it contains
\* ({} is a missing or empty field); 'x in text' is membership.
HostnameWords == {"Router"}
VendorWords == {"cisco"}
OsNameWords == {"Windows", "linux", "android"}
OsFamilyWords == {"Windows", "bsd"}
\* numbers of the open ports of metadata['ports'], and the service names
\* found on open ports
PortNumbers == {22, 23, 80, 443}
ServiceNames == {"ssh", "Telnet"}
\* metadata['open_ports_count'] as the caller filled it in
PortCounts == {0, 2}

\* str.lower() on the vocabulary
lower(w) ==
    CASE w = "Router" -> "router" [] w = "Windows" -> "windows"
      [] w = "Telnet" -> "telnet" [] w = "SSH" -> "ssh"
      [] OTHER -> w
Lowered(S) == {lower(w) : w \in S}

\* one entry of recognition.classification
Rule(device_type, prts, keywords, services) ==
    [device_type |-> device_type, ports |-> prts, keywords |-> keywords,
     services |-> services]
RouterRule == Rule("router", {23, 80}, <<"Router", "cisco">>, {"telnet"})
ServerRule == Rule("server", {22, 80}, <<"bsd">>, {"SSH"})
\* the configured rules, in the order of the configuration file
Configurations == {<<RouterRule, ServerRule>>, <<ServerRule, RouterRule>>}

\* classify_device, line 63: hostname, vendor, os_name and os_family joined
\* and lowered
text(d) == Lowered(d.hostname \cup d.vendor \cup d.os_name \cup d.os_family)

\* variant: the port part counts only when exactly one port matches
score_single_port(rule, d) ==
    (IF Cardinality(d.open_ports \cap rule.ports) = 1 THEN 10 ELSE 0)
    + 20 * Len(SelectSeq(rule.keywords, LAMBDA k : lower(k) \in text(d)))
    + 15 * Cardinality(Lowered(d.services) \cap Lowered(rule.services))

\* classify_device, lines 69-89: the score of one rule
score(rule, d) ==
    10 * Cardinality(d.open_ports \cap rule.ports)
    + 20 * Len(SelectSeq(rule.keywords, LAMBDA k : lower(k) \in text(d)))
    + 15 * Cardinality(Lowered(d.services) \cap Lowered(rule.services))

\* variant: a later rule of equal score replaces the best so far
RECURSIVE best_type_keeping_last(_, _, _, _)
best_type_keeping_last(rules, d, i, best) ==
    IF i > Len(rules) THEN best
    ELSE best_type_keeping_last(rules, d, i + 1,
             IF score(rules[i], d) > 0
                /\ (best = 0 \/ score(rules[i], d) >= score(rules[best], d))
             THEN i ELSE best)

\* classify_device, lines 91-96: scores holds the rules that score above
\* zero, in configuration order, and max(scores, key=scores.get) keeps the
\* first of the highest; best is the index of the best so far, 0 for none
RECURSIVE best_type(_, _, _, _)
best_type(rules, d, i, best) ==
    IF i > Len(rules) THEN best
    ELSE best_type(rules, d, i + 1,
             IF score(rules[i], d) > 0
                /\ (best = 0 \/ score(rules[i], d) > score(rules[best], d))
             THEN i ELSE best)

server_ports == {22, 80, 443, 3306, 5432, 6379, 8080}

\* variant: the mobile test comes before the Linux/Unix/BSD test
os_default_mobile_first(d) ==
    LET os_name == Lowered(d.os_name)
        os_family == Lowered(d.os_family)
    IN  IF "windows" \in os_name \cup os_family THEN "workstation"
        ELSE IF {"android", "ios"} \cap os_name # {} THEN "mobile"
        ELSE IF {"linux", "unix", "bsd"} \cap (os_name \cup os_family) # {}
        THEN IF d.open_ports \cap server_ports # {} THEN "server" ELSE "workstation"
        ELSE "unknown"

\* classify_device, lines 100-113: the default by operating system
os_default(d) ==
    LET os_name == Lowered(d.os_name)
        os_family == Lowered(d.os_family)
    IN  IF "windows" \in os_name \cup os_family THEN "workstation"
        ELSE IF {"linux", "unix", "bsd"} \cap (os_name \cup os_family) # {}
        THEN IF d.open_ports \cap server_ports # {} THEN "server" ELSE "workstation"
        ELSE IF {"android", "ios"} \cap os_name # {} THEN "mobile"
        ELSE "unknown"

\* classify_device, lines 27-113
classify_device(rules, d) ==
    LET best == best_type(rules, d, 1, 0)
    IN  IF best # 0 THEN rules[best].device_type ELSE os_default(d)

\* the evidence score of _calculate_confidence, lines 170-191
confidence_score(d) ==
    (IF d.os_name # {} THEN 30 ELSE 0)
    + (IF d.vendor # {} THEN 20 ELSE 0)
    + (IF d.hostname # {} THEN 20 ELSE 0)
    + (IF d.open_ports_count > 0 THEN 20 ELSE 0)
    + (IF d.services # {} \/ d.closed_named THEN 10 ELSE 0)

\* variant: the thresholds are exclusive
calculate_confidence_above(d) ==
    IF confidence_score(d) > 70 THEN "high"
    ELSE IF confidence_score(d) > 40 THEN "medium"
    ELSE "low"

\* _calculate_confidence, lines 193-198
calculate_confidence(d) ==
    IF confidence_score(d) >= 70 THEN "high"
    ELSE IF confidence_score(d) >= 40 THEN "medium"
    ELSE "low"

RecognitionFrame == UNCHANGED <<tasks, poolVars, lastCancel, sched, files, dbVars>>

\* the device dictionary gets one more word in one of its text fields
AddWord(th, field, w) ==
    /\ pc[th] = "idle"
    /\ \/ field = "hostname" /\ w \in HostnameWords \ loc[th].device_data.hostname
          /\ loc' = [loc EXCEPT ![th].device_data.hostname = @ \cup {w}]
       \/ field = "vendor" /\ w \in VendorWords \ loc[th].device_data.vendor
          /\ loc' = [loc EXCEPT ![th].device_data.vendor = @ \cup {w}]
       \/ field = "os_name" /\ w \in OsNameWords \ loc[th].device_data.os_name
          /\ loc' = [loc EXCEPT ![th].device_data.os_name = @ \cup {w}]
       \/ field = "os_family" /\ w \in OsFamilyWords \ loc[th].device_data.os_family
          /\ loc' = [loc EXCEPT ![th].device_data.os_family = @ \cup {w}]
    /\ UNCHANGED pc
    /\ RecognitionFrame

\* metadata['ports'] gets one more open port
OpenPort(th, p) ==
    /\ pc[th] = "idle"
    /\ p \notin loc[th].device_data.open_ports
    /\ loc' = [loc EXCEPT ![th].device_data.open_ports = @ \cup {p}]
    /\ UNCHANGED pc
    /\ RecognitionFrame

\* an open port of metadata['ports'] gets a service name
AddService(th, name) ==
    /\ pc[th] = "idle"
    /\ name \notin loc[th].device_data.services
    /\ loc' = [loc EXCEPT ![th].device_data.services = @ \cup {name}]
    /\ UNCHANGED pc
    /\ RecognitionFrame

\* metadata gets its open_ports_count, or a closed port with a service name
SetMetadata(th, n, named) ==
    /\ pc[th] = "idle"
    /\ loc[th].device_data.open_ports_count = 0
    /\ ~loc[th].device_data.closed_named
    /\ n > 0 \/ named
    /\ loc' = [loc EXCEPT ![th].device_data.open_ports_count = n,
                          ![th].device_data.closed_named = named]
    /\ UNCHANGED pc
    /\ RecognitionFrame

\* enrich_device_data, lines 160-161, with the rules __init__ loaded
Classify(th, rules) ==
    /\ pc[th] = "idle"
    /\ loc' = [loc EXCEPT ![th].rules = rules,
                          ![th].device_type = classify_device(rules, loc[th].device_data)]
    /\ pc' = [pc EXCEPT ![th] = "classified"]
    /\ RecognitionFrame

\* enrich_device_data, line 164
Confidence(th) ==
    /\ pc[th] = "classified"
    /\ loc' = [loc EXCEPT ![th].confidence = calculate_confidence(loc[th].device_data)]
    /\ pc' = [pc EXCEPT ![th] = "enriched"]
    /\ RecognitionFrame

\* enrich_device_data returns
EnrichReturn(th) ==
    /\ pc[th] = "enriched"
    /\ pc' = [pc EXCEPT ![th] = "idle"]
    /\ loc' = [loc EXCEPT ![th] = NoLoc]
    /\ RecognitionFrame

RecognitionThread == "t1"

NextRecognition ==
    \/ \E f \in {"hostname", "vendor", "os_name", "os_family"},
          w \in HostnameWords \cup VendorWords \cup OsNameWords \cup OsFamilyWords :
          AddWord(RecognitionThread, f, w)
    \/ \E p \in PortNumbers : OpenPort(RecognitionThread, p)
    \/ \E n \in ServiceNames : AddService(RecognitionThread, n)
    \/ \E n \in PortCounts, c \in BOOLEAN : SetMetadata(RecognitionThread, n, c)
    \/ \E r \in Configurations : Classify(RecognitionThread, r)
    \/ Confidence(RecognitionThread)
    \/ EnrichReturn(RecognitionThread)

SpecRecognition == Init /\ [][NextRecognition]_vars

\* ----------------------------------------------- suspicious devices
\* alerts.rules.suspicious_port.ports, the default of line 222, in the
\* order get_device_ports returns port rows (ORDER BY port_number)
suspicious_ports == <<23, 445, 3389>>
\* how many open ports a device has besides those of suspicious_ports
OtherOpen == {0, 4, 49}
\* an active device row with its port rows: the open suspicious ports in
\* port order, the closed ones, and the number of other open ports
SuspectDevices ==
    [hostname : {"None", "host"}, vendor : {"None", "vendor"},
     device_type : {"unknown", "server"},
     open_ports : {SelectSeq(suspicious_ports, LAMBDA q : q \in S) : S \in SUBSET {23, 445, 3389}},
     closed_ports : {<<>>, <<3389>>},
     other_open : OtherOpen]

\* len(open_ports), line 219
open_count_of(d) == Len(d.open_ports) + d.other_open

\* identify_suspicious_devices, lines 215-240: the reasons of one device,
\* in the order they are appended
suspicion_reasons(d) ==
    [k \in 1..Len(d.open_ports) |-> "Suspicious port " \o ToString(d.open_ports[k])]
    \o (IF d.hostname = "None" /\ d.vendor = "None"
        THEN <<"No hostname or vendor information">> ELSE <<>>)
    \o (IF open_count_of(d) > 50
        THEN <<"Unusual number of open ports (" \o ToString(open_count_of(d)) \o ")">>
        ELSE <<>>)
    \o (IF d.device_type = "unknown" /\ open_count_of(d) > 5
        THEN <<"Unknown device type with multiple open ports">> ELSE <<>>)

\* 'suspicious port' in r.lower(), line 262: only the reasons of line 227
\* contain that text
mentions_suspicious_port(r) ==
    \E k \in 1..Len(suspicious_ports) : r = "Suspicious port " \o ToString(suspicious_ports[k])

\* variant: a single suspicious-port reason alone is medium
calculate_suspicion_severity_by_count(reasons) ==
    IF Len(reasons) >= 3 THEN "critical"
    ELSE IF Len(reasons) = 2 THEN "high"
    ELSE "medium"

\* _calculate_suspicion_severity, lines 256-265
calculate_suspicion_severity(reasons) ==
    IF Len(reasons) >= 3 THEN "critical"
    ELSE IF Len(reasons) = 2 THEN "high"
    ELSE IF \E k \in 1..Len(reasons) : mentions_suspicious_port(reasons[k]) THEN "high"
    ELSE "medium"

SuspicionFrame == UNCHANGED <<tasks, poolVars, lastCancel, sched, files, dbVars>>

\* identify_suspicious_devices, lines 212-219: the next device of
\* get_all_devices and its ports are read
ReadDevice(th, d) ==
    /\ pc[th] = "idle"
    /\ loc' = [loc EXCEPT ![th].device = d]
    /\ pc' = [pc EXCEPT ![th] = "examine"]
    /\ SuspicionFrame

\* identify_suspicious_devices, lines 221-252: the reasons are collected
\* and the device is appended to the report when there is one
ExamineDevice(th) ==
    /\ pc[th] = "examine"
    /\ LET r == suspicion_reasons(loc[th].device)
       IN  loc' = [loc EXCEPT ![th].reasons = r,
                      ![th].suspicious =
                          IF r # <<>>
                          THEN Append(@, [reasons |-> r,
                                          severity |-> calculate_suspicion_severity(r)])
                          ELSE @]
    /\ pc' = [pc EXCEPT ![th] = "examined"]
    /\ SuspicionFrame

\* identify_suspicious_devices returns its report
SuspiciousReturn(th) ==
    /\ pc[th] = "examined"
    /\ pc' = [pc EXCEPT ![th] = "idle"]
    /\ loc' = [loc EXCEPT ![th] = NoLoc]
    /\ SuspicionFrame

NextSuspicious ==
    \/ \E d \in SuspectDevices : ReadDevice(RecognitionThread, d)
    \/ ExamineDevice(RecognitionThread)
    \/ SuspiciousReturn(RecognitionThread)

SpecSuspicious == Init /\ [][NextSuspicious]_vars

\* ------------------------------------------------------ trigger registry
MaxPending == 2
JobIds == {"recurring_discovery", "process_pending_tasks", "scan_quick_net"}
Intervals == {60}
TriggerTypes == {"interval", "cron", "date"}

\* store[id] := job, the id added if it is new
Put(store, id, job) ==
    [x \in DOMAIN store \cup {id} |-> IF x = id THEN job ELSE store[x]]

Drop(store, id) == [x \in DOMAIN store \ {id} |-> store[x]]

\* the index of the first tentative job with this id, 0 if there is none
FirstPending(pend, id) ==
    IF \E i \in 1..Len(pend) : pend[i].id = id
    THEN CHOOSE i \in 1..Len(pend) :
            /\ pend[i].id = id
            /\ \A k \in 1..(i - 1) : pend[k].id # id
    ELSE 0

\* scheduler.add_job(..., id=job_id, replace_existing=True): a stopped
\* scheduler keeps the job tentatively, a running one puts it in the store
add_job(sc, id, job) ==
    IF sc.state = "stopped"
    THEN [sc EXCEPT !.pending_jobs = Append(@, [id |-> id, job |-> job])]
    ELSE [sc EXCEPT !.jobs = Put(@, id, job)]

\* scheduler.start(): the tentative jobs go to the store in the order they
\* were added, each replacing a job of its id
RECURSIVE RealAdd(_, _)
RealAdd(store, pend) ==
    IF pend = <<>> THEN store
    ELSE RealAdd(Put(store, Head(pend).id, Head(pend).job), Tail(pend))

\* _setup_default_jobs
setup_default_jobs(sc) ==
    LET withDisc == IF sc.discovery > 0
                    THEN add_job(sc, "recurring_discovery",
                                 Job("_run_discovery_scan", "interval", sc.discovery))
                    ELSE sc
    IN  add_job(withDisc, "process_pending_tasks",
                Job("_process_pending_tasks", "interval", 30))

\* variant: start() without the is_running test sets the defaults up again
start_again(sc) ==
    [setup_default_jobs([sc EXCEPT !.state = "running", !.pending_jobs = <<>>,
                                   !.jobs = RealAdd(sc.jobs, sc.pending_jobs),
                                   !.is_running = TRUE])
        EXCEPT !.op = IF sc.is_running THEN "start_again" ELSE "start", !.ret = "none"]

\* ScanScheduler.start
start(sc) ==
    IF ~sc.is_running
    THEN [setup_default_jobs([sc EXCEPT !.state = "running", !.pending_jobs = <<>>,
                                        !.jobs = RealAdd(sc.jobs, sc.pending_jobs),
                                        !.is_running = TRUE])
            EXCEPT !.op = "start", !.ret = "none"]
    ELSE [sc EXCEPT !.op = "start_again", !.ret = "none"]

\* what get_jobs lists: the tentative jobs of a stopped scheduler, the
\* store of a running one
Registered(sc, id) ==
    IF sc.state = "stopped"
    THEN {sc.pending_jobs[i].job : i \in {k \in 1..Len(sc.pending_jobs) : sc.pending_jobs[k].id = id}}
    ELSE IF id \in DOMAIN sc.jobs THEN {sc.jobs[id]} ELSE {}

\* how many jobs get_jobs lists under this id
CountRegistered(sc, id) ==
    IF sc.state = "stopped"
    THEN Cardinality({k \in 1..Len(sc.pending_jobs) : sc.pending_jobs[k].id = id})
    ELSE IF id \in DOMAIN sc.jobs THEN 1 ELSE 0

\* _lookup_job: is there a job of this id
Known(sc, id) ==
    IF sc.state = "stopped" THEN FirstPending(sc.pending_jobs, id) # 0
    ELSE id \in DOMAIN sc.jobs

\* Job._modify(**changes): the attributes named in changes get new values
Changed(j, changes) ==
    [a \in DOMAIN j |-> IF a \in DOMAIN changes THEN changes[a] ELSE j[a]]

\* modify_job: the job found by _lookup_job gets the changes
Modify(sc, id, changes) ==
    IF sc.state = "stopped"
    THEN [sc EXCEPT !.pending_jobs[FirstPending(sc.pending_jobs, id)].job =
                        Changed(@, changes)]
    ELSE [sc EXCEPT !.jobs[id] = Changed(@, changes)]

Returned(sc, op, ret) == [sc EXCEPT !.op = op, !.ret = ret]

RegistryFrame == UNCHANGED <<tasks, poolVars, pc, loc, lastCancel, files, dbVars>>

Room == sched.state = "stopped" => Len(sched.pending_jobs) < MaxPending

StartScheduler ==
    /\ sched' = start(sched)
    /\ RegistryFrame

ScheduleRecurringDiscovery(interval, id) ==
    /\ Room
    /\ sched' = Returned(add_job(sched, id, Job("_run_discovery_scan", "interval", interval)),
                         "call", "none")
    /\ RegistryFrame

ScheduleRecurringScan(interval, id) ==
    /\ Room
    /\ sched' = Returned(add_job(sched, id, Job("_run_scan", "interval", interval)),
                         "call", "none")
    /\ RegistryFrame

\* CronTrigger(**cron_expression) raises on an invalid expression, before
\* add_job is reached
ScheduleCronScan(valid, id) ==
    /\ Room
    /\ sched' = IF valid
                THEN Returned(add_job(sched, id, Job("_run_scan", "cron", 0)),
                              "call", "none")
                ELSE Returned(sched, "call", "raised")
    /\ RegistryFrame

\* remove_job: JobLookupError is caught and reported as False
remove_job(sc, id) ==
    IF ~Known(sc, id) THEN Returned(sc, "call", "False")
    ELSE IF sc.state = "stopped"
    THEN Returned([sc EXCEPT !.pending_jobs =
                      SubSeq(@, 1, FirstPending(@, id) - 1)
                      \o SubSeq(@, FirstPending(@, id) + 1, Len(@))], "call", "True")
    ELSE Returned([sc EXCEPT !.jobs = Drop(@, id)], "call", "True")

RemoveJob(id) ==
    /\ sched' = remove_job(sched, id)
    /\ RegistryFrame

Pause == [paused |-> TRUE]
Resume == [paused |-> FALSE]

\* pause_job: next_run_time None; JobLookupError is reported as False
PauseJob(id) ==
    /\ sched' = IF Known(sched, id)
                THEN Returned(Modify(sched, id, Pause), "call", "True")
                ELSE Returned(sched, "call", "False")
    /\ RegistryFrame

\* resume_job: an interval or cron trigger always has a next fire time
ResumeJob(id) ==
    /\ sched' = IF Known(sched, id)
                THEN Returned(Modify(sched, id, Resume), "call", "True")
                ELSE Returned(sched, "call", "False")
    /\ RegistryFrame

\* variant: the job is removed before its new trigger is built
reschedule_job_dropping(sc, id, trigger_type, valid, seconds) ==
    LET new == [trigger |-> trigger_type, paused |-> FALSE,
                seconds |-> IF trigger_type = "interval" THEN seconds ELSE 0]
    IN  IF trigger_type \notin {"interval", "cron"} \/ ~valid \/ ~Known(sc, id)
        THEN Returned(remove_job(sc, id), "call", "False")
        ELSE Returned(Modify(sc, id, new), "call", "True")

\* reschedule_job: False for a trigger type other than interval and cron,
\* for trigger arguments the trigger's constructor rejects, and for an
\* unknown id; otherwise the job gets the new trigger and a next run time
reschedule_job(sc, id, trigger_type, valid, seconds) ==
    LET new == [trigger |-> trigger_type, paused |-> FALSE,
                seconds |-> IF trigger_type = "interval" THEN seconds ELSE 0]
    IN  IF trigger_type \notin {"interval", "cron"} \/ ~valid \/ ~Known(sc, id)
        THEN Returned(sc, "call", "False")
        ELSE Returned(Modify(sc, id, new), "call", "True")

RescheduleJob(id, trigger_type, valid, seconds) ==
    /\ sched' = reschedule_job(sched, id, trigger_type, valid, seconds)
    /\ RegistryFrame

\* a constructed ScanScheduler: nothing registered, not started; the
\* configured discovery interval is 300 s by default and 0 turns it off
InitRegistry ==
    /\ tasks \in {<<>>, <<[ttype |-> "discovery", status |-> "completed",
                           priority |-> DefaultPriority, created_at |-> 1,
                           scheduled_at |-> "NULL", due |-> FALSE, error |-> "none"]>>}
    /\ executor = 0
    /\ nexec = 0
    /\ queue = [e \in ExecIds |-> <<>>]
    /\ fut = <<>>
    /\ active_tasks = [t \in 1..MaxTasks |-> 0]
    /\ pc = [th \in Threads |-> "idle"]
    /\ loc = [th \in Threads |-> NoLoc]
    /\ lastCancel = NoCancel
    /\ \E d \in {0, 300} :
          sched = [is_running |-> FALSE, state |-> "stopped", pending_jobs |-> <<>>,
                   jobs |-> <<>>, discovery |-> d, op |-> "none", ret |-> "none"]
    /\ files = 0
    /\ devices = <<>>
    /\ ports = <<>>
    /\ events = <<>>
    /\ scan_results = <<>>
    /\ conn = [th \in Threads |-> 0]
    /\ now = 0

NextRegistry ==
    \/ StartScheduler
    \/ \E i \in Intervals, id \in JobIds : ScheduleRecurringDiscovery(i, id)
    \/ \E i \in Intervals, id \in JobIds : ScheduleRecurringScan(i, id)
    \/ \E v \in BOOLEAN, id \in JobIds : ScheduleCronScan(v, id)
    \/ \E id \in JobIds : RemoveJob(id)
    \/ \E id \in JobIds : PauseJob(id)
    \/ \E id \in JobIds : ResumeJob(id)
    \/ \E id \in JobIds, ty \in TriggerTypes, v \in BOOLEAN, i \in Intervals :
          RescheduleJob(id, ty, v, i)

SpecRegistry == InitRegistry /\ [][NextRegistry]_vars

\* ------------------------------------------------------------------ claims

Futures == 1..Len(fut)
Started(f) == fut[f].state \in {"RUNNING", "FINISHED"}
Cancelled(f) == fut[f].state \in {"CANCELLED", "CANCELLED_AND_NOTIFIED"}

StatusStep(a, b) ==
    \/ a = b
    \/ a = "pending" /\ b = "running"
    \/ a = "running" /\ b \in {"completed", "failed"}

\* C1: a task's status changes only along pending -> running,
\* running -> completed and running -> failed.
C1_StatusStateMachine ==
    [][\A t \in 1..Len(tasks) : StatusStep(tasks[t].status, tasks'[t].status)]_vars

\* C2: no task id is executed a second time: at most one _scan_worker run
\* is ever started for a task.
C2_ScanAtMostOncePerTask ==
    \A t \in 1..Len(tasks) :
        Cardinality({f \in Futures : fut[f].task = t /\ Started(f)}) <= 1

\* C3: at every moment at most max_workers _scan_worker executions are in
\* progress in the worker pool.
C3_AtMostMaxWorkersRunning ==
    Cardinality({f \in Futures : fut[f].state = "RUNNING"}) <= max_workers

\* C4: a submission is queued, never dropped: every pending future sits in
\* the work queue of its executor, and it is eventually run by a worker
\* unless it is cancelled.
C4_QueuedThenRun ==
    /\ [](\A f \in Futures : fut[f].state = "PENDING" =>
             \E i \in 1..Len(queue[fut[f].ex]) : queue[fut[f].ex][i] = f)
    /\ \A f \in 1..MaxFutures :
          (f \in Futures /\ fut[f].state = "PENDING")
              ~> (f \in Futures /\ (Started(f) \/ Cancelled(f)))

\* a submission waiting in the queue while every worker slot is busy
C4_Witness ==
    \E f \in Futures :
        /\ fut[f].state = "PENDING"
        /\ Cardinality(Busy(fut[f].ex)) = max_workers

\* C5: a failing pipeline ends as a result value of its own task with
\* success = false, _scan_worker does not raise, and the step leaves every
\* other future and every task row as it was.
C5_FailureIsolated ==
    [][\A f \in Futures, o \in Outcomes : WorkerFinish(f, o, <<>>) =>
          /\ fut'[f].state = "FINISHED"
          /\ fut'[f].result.task_id = fut[f].task
          /\ (o # "ok" \/ fut[f].ttype \notin KnownTypes) => ~fut'[f].result.success
          /\ (o = "ok" /\ fut[f].ttype \in KnownTypes) => fut'[f].result.success
          /\ \A g \in Futures \ {f} : fut'[g] = fut[g]
          /\ tasks' = tasks]_vars

\* one pipeline failed and another one succeeded
C5_Witness ==
    \E f, g \in Futures :
        /\ fut[f].state = "FINISHED" /\ ~fut[f].result.success
        /\ fut[g].state = "FINISHED" /\ fut[g].result.success

\* C6: cancel_task returns true exactly for a tracked future whose work has
\* not started, which is then cancelled and never runs; otherwise it returns
\* false and changes no future, and a started scan runs on until it finishes.
C6_CancelOnlyBeforeStart ==
    [][/\ \A id \in 1..MaxTasks : CancelTask(id) =>
             /\ (lastCancel' = "True") <=>
                    (active_tasks[id] # 0 /\ fut[active_tasks[id]].state = "PENDING")
             /\ lastCancel' = "True" => fut'[active_tasks[id]].state = "CANCELLED"
             /\ lastCancel' = "False" => fut' = fut /\ active_tasks' = active_tasks
       /\ \A f \in Futures :
             /\ Cancelled(f) => fut'[f].state \in {"CANCELLED", "CANCELLED_AND_NOTIFIED"}
             /\ fut[f].state = "RUNNING" => fut'[f].state \in {"RUNNING", "FINISHED"}]_vars

\* a cancel that succeeded on a queued future, next to a future that ran
C6_Witness ==
    /\ lastCancel = "True"
    /\ \E f, g \in Futures : Cancelled(f) /\ Started(g)

\* C7: when wait_for_completion returns, exactly the finished handles have
\* left the active set and the unfinished ones are still tracked.
C7_WaitDrainsFinishedOnly ==
    [][\A th \in Threads : (pc[th] = "waiting" /\ pc'[th] = "idle") =>
          /\ ~loc'[th].raised
          /\ \A id \in 1..MaxTasks :
                active_tasks'[id] =
                    IF active_tasks[id] # 0 /\ fut[active_tasks[id]].state
                          \in {"FINISHED", "CANCELLED", "CANCELLED_AND_NOTIFIED"}
                    THEN 0 ELSE active_tasks[id]]_vars

OneRowPerIp(tbl) ==
    \A i, j \in 1..Len(tbl) : tbl[i].ip = tbl[j].ip => i = j

\* the tag a stored column value carries
Carries(v, tag) == v = tag \/ v = json_dumps(tag)

\* the row of d's address already held the record d when it was upserted:
\* afterwards there is the same number of rows, one of them for that address,
\* with the same field values
C8_SameRecordAgain(d) ==
    (HasRow(devices, d.ip) /\ devices[RowOf(devices, d.ip)].vals = DeviceValues(d))
    => /\ Len(devices') = Len(devices)
       /\ Cardinality({i \in 1..Len(devices') : devices'[i].ip = d.ip}) = 1
       /\ devices'[RowOf(devices', d.ip)].vals = devices[RowOf(devices, d.ip)].vals

\* C8: after any sequence of add_device calls there is at most one Device row
\* per ip_address; upserting the record a row already holds leaves one row
\* with unchanged field values; and no step decreases a row's last_seen.
C8_OneRowIdempotentMonotone ==
    /\ []OneRowPerIp(devices)
    /\ [][/\ \A th \in TriggerThreads :
                ProcDevice(th) => C8_SameRecordAgain(Head(loc[th].devs))
          /\ \A d \in DirectDicts :
                (pc' = pc /\ AddDeviceCall(SweepThread, d)) => C8_SameRecordAgain(d)
          /\ \A i \in 1..Len(devices) :
                /\ i <= Len(devices')
                /\ devices'[i].ip = devices[i].ip
                /\ devices'[i].first_seen = devices[i].first_seen
                /\ devices'[i].last_seen >= devices[i].last_seen]_vars

\* both addresses have a row and one of them has been upserted again later
C8_Witness ==
    /\ Len(devices) = Cardinality(IPs)
    /\ \E i \in 1..Len(devices) : devices[i].last_seen > devices[i].first_seen

\* the value C9 as written expects in column k after an upsert of d: d's
\* value (metadata in its JSON text), null where d lacks the key
C9_AsWritten(d, k) ==
    IF k \in PresentKeys(d.shape)
    THEN IF k = "metadata" THEN json_dumps(Value(d, k)) ELSE Value(d, k)
    ELSE "None"

\* the same, except that a missing status is stored as 'up' and a missing
\* metadata as the JSON text of the empty dictionary
C9_Stored(d, k) ==
    IF k \in PresentKeys(d.shape) THEN C9_AsWritten(d, k)
    ELSE IF k = "status" THEN "up"
    ELSE IF k = "metadata" THEN "{}"
    ELSE "None"

C9_RowAsWritten(d) ==
    HasRow(devices, d.ip)
    => \A k \in Fields : devices'[RowOf(devices', d.ip)].vals[k] = C9_AsWritten(d, k)

C9_RowStored(d) ==
    HasRow(devices, d.ip)
    => \A k \in Fields : devices'[RowOf(devices', d.ip)].vals[k] = C9_Stored(d, k)

\* C9 (as written): after add_device(B) on an existing row every listed field
\* equals B's value and is null where B does not carry the field.
C9_Original ==
    [][/\ \A th \in TriggerThreads :
             ProcDevice(th) => C9_RowAsWritten(Head(loc[th].devs))
       /\ \A d \in DirectDicts :
             (pc' = pc /\ AddDeviceCall(SweepThread, d)) => C9_RowAsWritten(d)]_vars

\* C9 (amended): after add_device(B) on an existing row every listed field
\* equals B's value; where B does not carry the field it is null, except
\* status, which is then 'up', and metadata, which is then '{}'. No field of
\* the earlier observation survives.
C9_LastWriteWins ==
    [][/\ \A th \in TriggerThreads :
             ProcDevice(th) => C9_RowStored(Head(loc[th].devs))
       /\ \A d \in DirectDicts :
             (pc' = pc /\ AddDeviceCall(SweepThread, d)) => C9_RowStored(d)]_vars

\* a pipeline has upserted a host with a MAC, an OS match and ports, and the
\* row of that address now holds a later record that carries none of them
C9_Witness ==
    \E th \in TriggerThreads :
        /\ pc[th] \in {"proc_port", "proc_event"}
        /\ Head(loc[th].devs).shape = "host"
        /\ HasRow(devices, Head(loc[th].devs).ip)
        /\ LET v == devices[RowOf(devices, Head(loc[th].devs).ip)].vals
           IN  /\ \A k \in Fields \ {"status", "metadata"} : v[k] = "None"
               /\ v["status"] = "up"
               /\ v["metadata"] = "{}"

\* the step leaves the row of d's address holding the record d and every
\* other row as it was
C10_WholeRow(d) ==
    /\ devices'[RowOf(devices', d.ip)].vals = DeviceValues(d)
    /\ \A i \in 1..Len(devices) : devices[i].ip # d.ip => devices'[i] = devices[i]

\* C10: when pipelines reconcile the same IP concurrently there is one row for
\* it; every step that changes the devices table is one pipeline's (or
\* caller's) upsert, after which the whole row is that upsert's observation,
\* so the row always holds the observation committed last; and no row ever
\* holds fields of two observations.
C10_LastCommitWinsUnmixed ==
    /\ []OneRowPerIp(devices)
    /\ [](\A i \in 1..Len(devices) :
            ~ \E k1, k2 \in Fields : /\ Carries(devices[i].vals[k1], "A")
                                     /\ Carries(devices[i].vals[k2], "B"))
    /\ [][\/ devices' = devices
          \/ \E th \in TriggerThreads :
                ProcDevice(th) /\ C10_WholeRow(Head(loc[th].devs))
          \/ \E d \in DirectDicts :
                AddDeviceCall(SweepThread, d) /\ C10_WholeRow(d)]_vars

\* two pipelines are both past the upsert of the same address, with different
\* observations, and the row holds the first thread's
C10_Witness ==
    /\ \A th \in TriggerThreads : pc[th] \in {"proc_port", "proc_event"}
    /\ Head(loc["t1"].devs).ip = Head(loc["t2"].devs).ip
    /\ Head(loc["t1"].devs).shape = "host"
    /\ Head(loc["t2"].devs).shape = "host"
    /\ devices[RowOf(devices, Head(loc["t1"].devs).ip)].vals
           = DeviceValues(Head(loc["t1"].devs))

\* the devices of the batch that raised, once the step that ends the batch is
\* taken: the last device raised when that step created no event
C11_FailedAtEnd(th) ==
    loc[th].failed \cup (IF events' = events THEN {loc[th].n} ELSE {})

\* C11: when the processing of some devices of a batch of N raises, every
\* other device of the batch has its Device row and the batch has created one
\* device_discovered event for each of them, N-1 when one device raised: a
\* failing device does not stop the devices after it.
C11_BatchSurvivesDeviceFailure ==
    [][(pc["t1"] \in {"proc_device", "proc_event"} /\ pc'["t1"] = "idle")
       => /\ Tail(loc["t1"].devs) = <<>>
          /\ Len(events') = loc["t1"].n - Cardinality(C11_FailedAtEnd("t1"))
          /\ \A i \in 1..Len(events') : events'[i].event_type = "device_discovered"
          /\ \A i \in 1..loc["t1"].n :
                i \notin C11_FailedAtEnd("t1")
                => /\ HasRow(devices', loc["t1"].batch[i].ip)
                   /\ \E j \in 1..Len(events') :
                         events'[j].event_type = "device_discovered"]_vars

\* the first device of a batch of two raised, and the second one has been
\* upserted and is about to get its event
C11_Witness ==
    /\ pc["t1"] = "proc_event"
    /\ loc["t1"].n = 2
    /\ loc["t1"].failed = {1}
    /\ Len(loc["t1"].devs) = 1
    /\ HasRow(devices, Head(loc["t1"].devs).ip)
    /\ events = <<>>

\* C12: when _process_scan_result stores a port of a device's port list, the
\* device has its one Device row and the port is afterwards a Port row whose
\* device_id is the id of that row, with the observed state, for a new IP and
\* for a rescanned one; and every Port row references an existing Device.
C12_PortsOnOwnDevice ==
    /\ []OneRowPerIp(devices)
    /\ [](\A i \in 1..Len(ports) : ports[i].device_id \in 1..Len(devices))
    /\ [][\A th \in TriggerThreads :
            ProcPort(th)
            => LET d == Head(loc[th].devs)
                   p == Head(loc[th].prts)
               IN  /\ HasRow(devices, d.ip)
                   /\ \E i \in 1..Len(ports') :
                         /\ ports'[i].device_id = RowOf(devices, d.ip)
                         /\ ports'[i].port_number = p.port
                         /\ ports'[i].protocol = p.protocol
                         /\ ports'[i].state = p.state]_vars

\* C13: add_device returns the id of the Device row that holds the record's
\* ip_address, on the insert path and on the update path, whatever the same
\* connection inserted before.
C13_ReturnsRowId ==
    [][/\ \A th \in TriggerThreads :
             ProcDevice(th)
             => loc'[th].device_id = RowOf(devices', Head(loc[th].devs).ip)
       /\ \A d \in DirectDicts :
             (pc' = pc /\ AddDeviceCall(SweepThread, d))
             => conn'[SweepThread] = RowOf(devices', d.ip)]_vars

\* C14: when the scan succeeds but the parser returns an error object for its
\* output, execute_task ends the task with status failed and an error
\* message, not completed.
C14_ParseErrorFailsTask ==
    [][\A th \in Threads :
          (ExecStatus(th) /\ fut[loc[th].fid].result.parsed_data = "error")
          => /\ tasks'[loc[th].tid].status = "failed"
             /\ tasks'[loc[th].tid].error # "none"]_vars

\* the result of a scan whose invocation failed: a nonzero exit code (the
\* scanner's result then has no error entry), a timeout or a launch exception
InvocationFailed(r) == ~r.success /\ r.error \in {"none", "timeout", "launch"}

\* C15: a task that execute_task ends failed because the invocation failed has
\* a non-null error text, and execute_task returns to its caller.
C15_InvocationFailureHasError ==
    [][\A th \in Threads :
          (ExecStatus(th) /\ InvocationFailed(fut[loc[th].fid].result))
          => /\ tasks'[loc[th].tid].status = "failed"
             /\ tasks'[loc[th].tid].error # "none"
             /\ pc'[th] = "next"]_vars

\* C16: schedule_one_time_scan adds exactly one row, pending, and changes
\* nothing else (no future, no thread starts executing, no job registered,
\* no table written);
\* a row it created leaves pending only in the backlog sweep's execute_task.
C16_OneTimeOnlyQueues ==
    [][/\ (\E ty \in TaskTypes, due \in BOOLEAN : ScheduleOneTime(ty, due))
          => /\ Len(tasks') = Len(tasks) + 1
             /\ SubSeq(tasks', 1, Len(tasks)) = tasks
             /\ tasks'[Len(tasks')].status = "pending"
             /\ UNCHANGED <<poolVars, pc, loc, lastCancel, sched, files, dbVars>>
       /\ \A id \in 1..Len(tasks) :
             (/\ tasks[id].scheduled_at = "text"
              /\ tasks[id].status = "pending"
              /\ tasks'[id].status # "pending")
             => ExecBegin(SweepThread) /\ loc[SweepThread].tid = id]_vars

C16_Witness ==
    /\ Len(tasks) = 2
    /\ tasks[1].scheduled_at = "NULL" /\ tasks[1].status = "completed"
    /\ tasks[2].scheduled_at = "text" /\ tasks[2].status = "pending"
    /\ Len(fut) = 1
    /\ \A th \in Threads : pc[th] = "idle"

\* C17: a pending task that the backlog query selects (scheduled_at NULL or
\* elapsed) is eventually completed or failed, when the sweep keeps firing
\* and scans terminate.
C17_DueTaskEventuallyDone ==
    \A id \in 1..MaxTasks :
        (/\ id \in 1..Len(tasks)
         /\ tasks[id].status = "pending"
         /\ (tasks[id].scheduled_at = "NULL" \/ tasks[id].due))
            ~> (id \in 1..Len(tasks) /\ tasks[id].status \in {"completed", "failed"})

C17_Witness ==
    /\ Len(tasks) = 2
    /\ \A id \in 1..2 : /\ tasks[id].scheduled_at = "text"
                        /\ tasks[id].due
                        /\ tasks[id].status \in {"completed", "failed"}
    /\ pc[SweepThread] = "idle"

\* C18: whenever the backlog sweep sets a task to running, that task is
\* pending at that moment and its scheduled_at is NULL or has elapsed.
C18_SweepDispatchesDuePending ==
    [][(ExecBegin(SweepThread) /\ loc[SweepThread].tid \in 1..Len(tasks))
       => /\ tasks[loc[SweepThread].tid].status = "pending"
          /\ \/ tasks[loc[SweepThread].tid].scheduled_at = "NULL"
             \/ tasks[loc[SweepThread].tid].due]_vars

\* C19: the list the backlog query returns has at most limit ids, all of
\* pending rows whose scheduled_at is NULL or elapsed, none twice and none
\* missing while there is room; a selected row never has a lower priority
\* than an eligible row left out, nor, at equal priority, a later created_at;
\* and the list itself is in that order.
C19_Due(i) ==
    /\ tasks[i].status = "pending"
    /\ (tasks[i].scheduled_at = "NULL" \/ tasks[i].due)

C19_NotAfter(i, j) ==
    \/ tasks[i].priority > tasks[j].priority
    \/ tasks[i].priority = tasks[j].priority /\ tasks[i].created_at <= tasks[j].created_at

C19_SelectionIsHeadOfOrder ==
    pc[SweepThread] = "queried" =>
        LET sel == loc[SweepThread].todo
            N == loc[SweepThread].n
            Chosen == {sel[a] : a \in 1..Len(sel)}
            Due == {i \in 1..Len(tasks) : C19_Due(i)}
        IN  /\ Len(sel) <= N
            /\ Chosen \subseteq Due
            /\ Cardinality(Chosen) = Len(sel)
            /\ Len(sel) < N => Chosen = Due
            /\ \A i \in Chosen, j \in Due \ Chosen : C19_NotAfter(i, j)
            /\ \A a, b \in 1..Len(sel) : a < b => C19_NotAfter(sel[a], sel[b])

C19_Witness ==
    /\ pc[SweepThread] = "queried"
    /\ loc[SweepThread].n = 2
    /\ Len(tasks) = 3
    /\ \A i \in 1..3 : C19_Due(i)
    /\ tasks[1].priority < tasks[3].priority
    /\ tasks[2].priority = tasks[3].priority
    /\ tasks[2].created_at < tasks[3].created_at
    /\ loc[SweepThread].todo = <<2, 3>>

\* C20: the backlog sweep dispatches asynchronously: its thread hands each
\* selected task to the pool with a completion callback and never blocks
\* on a future, so the next task is submitted while the previous one runs.
C20_SweepDispatchesAsync ==
    [][/\ pc'[SweepThread] # "wait"
       /\ SubmitDo(SweepThread) => loc[SweepThread].cb]_vars

\* C21: a firing of a recurring or cron trigger creates exactly one task,
\* pending, and executes that task; when the firing returns, the task is
\* completed or failed.
C21_FiringRunsItsTaskToTheEnd ==
    [][\A th \in TriggerThreads :
          /\ (\E ty \in TaskTypes : TriggerFire(th, ty))
                => /\ Len(tasks') = Len(tasks) + 1
                   /\ SubSeq(tasks', 1, Len(tasks)) = tasks
                   /\ tasks'[Len(tasks')].status = "pending"
                   /\ loc'[th].tid = Len(tasks')
          /\ (pc[th] = "next" /\ CallerNext(th))
                => tasks[loc[th].tid].status \in {"completed", "failed"}]_vars

\* C22: after any schedule_recurring_discovery, schedule_recurring_scan or
\* schedule_cron_scan call the registry lists at most one job per id, the
\* job listed under the id just registered is the new one, and the jobs of
\* the other ids are as before (so registering the same job again changes
\* nothing).
C22_Registers(id, job) ==
    /\ \A x \in JobIds : CountRegistered(sched', x) <= 1
    /\ Registered(sched', id) = {job}
    /\ \A x \in JobIds \ {id} : Registered(sched', x) = Registered(sched, x)

C22_OneTriggerPerId ==
    [][\A id \in JobIds :
          /\ \A i \in Intervals :
                /\ ScheduleRecurringDiscovery(i, id)
                      => C22_Registers(id, Job("_run_discovery_scan", "interval", i))
                /\ ScheduleRecurringScan(i, id)
                      => C22_Registers(id, Job("_run_scan", "interval", i))
          /\ ScheduleCronScan(TRUE, id)
                => C22_Registers(id, Job("_run_scan", "cron", 0))]_vars

\* C23: a start() that starts the scheduler leaves it running with the 30 s
\* backlog sweep registered and, for a discovery interval above 0, the
\* recurring discovery with that interval, one job per id; a start() on a
\* started scheduler leaves the registry as it is.
C23_DefaultJobsOnceEach ==
    [][StartScheduler =>
          /\ sched'.is_running /\ sched'.state = "running"
          /\ \A id \in JobIds : CountRegistered(sched', id) <= 1
          /\ ~sched.is_running =>
                /\ Registered(sched', "process_pending_tasks")
                      = {Job("_process_pending_tasks", "interval", 30)}
                /\ sched.discovery > 0 =>
                      Registered(sched', "recurring_discovery")
                         = {Job("_run_discovery_scan", "interval", sched.discovery)}
          /\ sched.is_running =>
                /\ sched'.jobs = sched.jobs
                /\ sched'.pending_jobs = sched.pending_jobs]_vars

C23_Witness ==
    /\ sched.op = "start_again"
    /\ sched.discovery = 300
    /\ DOMAIN sched.jobs = JobIds
    /\ sched.jobs["process_pending_tasks"] = Job("_process_pending_tasks", "interval", 30)
    /\ sched.jobs["recurring_discovery"] = Job("_run_discovery_scan", "interval", 300)

\* C24: a scheduling operation that fails (reschedule_job with an unknown
\* trigger type, with arguments the trigger rejects or for an unknown id;
\* remove_job, pause_job, resume_job for an unknown id) returns False and
\* leaves the registry and the task records as they were.
C24_Untouched ==
    /\ sched'.ret = "False"
    /\ sched'.jobs = sched.jobs
    /\ sched'.pending_jobs = sched.pending_jobs
    /\ sched'.state = sched.state
    /\ tasks' = tasks

C24_FailedOperationChangesNothing ==
    [][\A id \in JobIds :
          /\ \A ty \in TriggerTypes, v \in BOOLEAN, i \in Intervals :
                (/\ RescheduleJob(id, ty, v, i)
                 /\ (ty = "date" \/ ~v \/ CountRegistered(sched, id) = 0))
                => C24_Untouched
          /\ (CountRegistered(sched, id) = 0
               /\ (RemoveJob(id) \/ PauseJob(id) \/ ResumeJob(id)))
                => C24_Untouched
          /\ (sched'.ret = "False" /\ sched' # sched)
                => sched'.jobs = sched.jobs /\ sched'.pending_jobs = sched.pending_jobs]_vars

C24_Witness ==
    /\ sched.ret = "False"
    /\ sched.state = "running"
    /\ Len(tasks) = 1
    /\ "scan_quick_net" \in DOMAIN sched.jobs
    /\ sched.jobs["scan_quick_net"] = [Job("_run_scan", "cron", 0) EXCEPT !.paused = TRUE]

\* C25: when scan() returns, on whichever branch, the scratch file of the
\* invocation is gone, so there are never more scratch files than scans in
\* progress.
InProgress == {th \in Threads : pc[th] \in {"scan_run", "scan_finally"}}

C26_TimeoutResult ==
    [][\A th \in Threads, e \in Elapsed :
          ScanRun(th, "timeout", e)
             => /\ ~loc'[th].scan_result.success
                /\ loc'[th].scan_result.error = "timeout"
                /\ loc'[th].scan_result.duration = loc[th].timeout]_vars

\* C27: every task that has finished (completed or failed) has exactly one
\* ScanResult record, which carries its task id; no task has two; and the
\* ScanResult table only grows, its records never changing.
ResultsOf(tbl, id) == {i \in 1..Len(tbl) : tbl[i].task_id = id}

C27_OneResultPerFinishedTask ==
    [][/\ Len(scan_results') >= Len(scan_results)
       /\ SubSeq(scan_results', 1, Len(scan_results)) = scan_results
       /\ \A id \in 1..Len(tasks') :
             /\ Cardinality(ResultsOf(scan_results', id)) <= 1
             /\ tasks'[id].status \in {"completed", "failed"}
                   => Cardinality(ResultsOf(scan_results', id)) = 1]_vars

\* C27, the part about completed tasks alone: a task that has completed
\* has exactly one ScanResult.
C27_OneResultPerCompletedTask ==
    \A id \in 1..Len(tasks) :
        tasks[id].status = "completed" => Cardinality(ResultsOf(scan_results, id)) = 1

\* C28: reconciliation creates a device_discovered event only for a device
\* whose IP was not in the inventory before, one for each, so there are
\* never more device_discovered events than Device rows; and a port upsert
\* creates no event.
C28_EventOnlyForNewDevice ==
    [][/\ Cardinality({i \in 1..Len(events') : events'[i].event_type = "device_discovered"})
             <= Len(devices')
       /\ \A th \in TriggerThreads : ProcPort(th) => events' = events]_vars

\* the payload the parser thread was given cannot be parsed: it is empty,
\* not well-formed, or has a host whose OS accuracy is not a number
C29_FailsToParse ==
    LET xml == loc[ParserThread].xml_output
    IN  \/ xml.kind # "xml"
        \/ \E i \in 1..Len(xml.hosts) :
               xml.hosts[i].status # "nostatus" /\ xml.hosts[i].accuracy = "high"

\* C29: a malformed or empty payload makes parse_xml return an error
\* object with no hosts, and extract_devices on that object returns an
\* empty list, so no device of such a payload reaches reconciliation
C29_UnparsablePayloadYieldsNoDevice ==
    /\ (pc[ParserThread] \in {"parsed", "extracted"} /\ C29_FailsToParse)
           => /\ loc[ParserThread].parsed_data.error
              /\ loc[ParserThread].parsed_data.hosts = <<>>
    /\ (pc[ParserThread] = "extracted" /\ loc[ParserThread].parsed_data.error)
           => loc[ParserThread].extracted = <<>>

C29_Witness ==
    LET xml == loc[ParserThread].xml_output
    IN  /\ pc[ParserThread] = "extracted"
        /\ xml.kind = "xml"
        /\ Len(xml.hosts) = 2
        /\ xml.hosts[1].status = "up" /\ xml.hosts[1].accuracy = "95"
        /\ xml.hosts[2].status = "up" /\ xml.hosts[2].accuracy = "high"
        /\ loc[ParserThread].parsed_data.error
        /\ loc[ParserThread].extracted = <<>>

\* how many of the first i hosts have status up
C30_Rank(hosts, i) == Cardinality({j \in 1..i : hosts[j].status = "up"})

\* the first three octets of a colon-separated MAC, upper-cased
C30_Oui(mac) == [k \in 1..6 |-> upper(<<mac[1], mac[2], mac[4], mac[5], mac[7], mac[8]>>[k])]

\* what the claim says of the device made from host h
C30_DeviceOf(d, h, counted) ==
    /\ d.ip_address = h.ip_address
    /\ d.status = "up"
    /\ h.mac_address = NoMac => "oui" \notin d.keys
    /\ h.mac_address # NoMac => "oui" \in d.keys /\ d.oui = C30_Oui(h.mac_address)
    /\ counted => /\ "open_ports_count" \in d.keys
                  /\ d.open_ports_count =
                         Cardinality({k \in 1..Len(h.ports) : h.ports[k] = "open"})

C30_Extracted(countAlways) ==
    LET hosts == loc[ParserThread].parsed_data.hosts
        devs  == loc[ParserThread].extracted
    IN  (pc[ParserThread] = "extracted" /\ ~loc[ParserThread].parsed_data.error)
            => /\ Len(devs) = C30_Rank(hosts, Len(hosts))
               /\ \A i \in 1..Len(hosts) :
                      hosts[i].status = "up"
                          => C30_DeviceOf(devs[C30_Rank(hosts, i)], hosts[i],
                                          countAlways \/ hosts[i].ports # <<>>)

\* C30: extract_devices returns exactly one device per host with status
\* up, in host order, and none for the other hosts; a host without a MAC
\* yields a device with its IP and no oui, a host with a MAC yields the
\* oui of its first three octets, colons removed and upper-cased; and
\* open_ports_count is the number of the host's open ports
C30_OneDevicePerUpHost == C30_Extracted(TRUE)

\* C30 as the code has it: open_ports_count is present, and is the number
\* of open ports, for a host with at least one port; the device of a host
\* with no port has no open_ports_count
C30_OneDevicePerUpHostCountedWithPorts ==
    /\ C30_Extracted(FALSE)
    /\ pc[ParserThread] = "extracted"
           => \A k \in 1..Len(loc[ParserThread].extracted) :
                  ("ports" \notin loc[ParserThread].extracted[k].keys)
                      => "open_ports_count" \notin loc[ParserThread].extracted[k].keys

C30_Witness ==
    LET hosts == loc[ParserThread].parsed_data.hosts
        devs  == loc[ParserThread].extracted
    IN  /\ pc[ParserThread] = "extracted"
        /\ Len(hosts) = 2
        /\ hosts[1].status = "down"
        /\ hosts[2].status = "up"
        /\ hosts[2].mac_address # NoMac
        /\ hosts[2].mac_address[4] = "1" /\ hosts[2].mac_address[5] = "a"
        /\ hosts[2].ports = <<"open", "closed">>
        /\ Len(devs) = 1
        /\ devs[1].ip_address = "ip2"
        /\ devs[1].oui = <<"0", "0", "1", "A", "2", "B">>
        /\ devs[1].open_ports_count = 1

\* C31: for every non-empty list of OS match candidates the best match is
\* a candidate whose accuracy is numerically the highest of the list, and
\* among several of the highest accuracy it is the first encountered
C31_BestMatchIsFirstHighest ==
    LET m == loc[ParserThread].matches
        b == loc[ParserThread].best_match
    IN  (pc[ParserThread] = "os_parsed" /\ ~loc[ParserThread].raised)
            => /\ b \in 1..Len(m)
               /\ \A j \in 1..Len(m) : int(m[j]) <= int(m[b])
               /\ \A j \in 1..(b - 1) : int(m[j]) < int(m[b])

C31_Witness ==
    /\ pc[ParserThread] = "os_parsed"
    /\ loc[ParserThread].matches = <<<<"9", "5">>, <<"1", "0", "0">>, <<"1", "0", "0">>>>
    /\ loc[ParserThread].best_match = 2

\* the total score the claim gives a rule: 10 per matching open port, 20
\* per matching keyword, 15 per matching service name
C32_Total(rule, d) ==
    10 * Cardinality({q \in d.open_ports : q \in rule.ports})
    + 20 * Cardinality({k \in 1..Len(rule.keywords) : lower(rule.keywords[k]) \in text(d)})
    + 15 * Cardinality({n \in Lowered(d.services) : n \in Lowered(rule.services)})

\* C32: whenever a rule scores above zero, classify_device returns the
\* type of a rule whose total score is the maximum over the configured
\* rules, and of several such rules the one defined first
C32_HighestScoreFirstDefinedWins ==
    LET d == loc[RecognitionThread].device_data
        rules == loc[RecognitionThread].rules
    IN  (/\ pc[RecognitionThread] = "classified"
         /\ \E i \in 1..Len(rules) : C32_Total(rules[i], d) > 0)
            => \E b \in 1..Len(rules) :
                   /\ loc[RecognitionThread].device_type = rules[b].device_type
                   /\ \A j \in 1..Len(rules) : C32_Total(rules[j], d) <= C32_Total(rules[b], d)
                   /\ \A j \in 1..(b - 1) : C32_Total(rules[j], d) < C32_Total(rules[b], d)

C32_Witness ==
    /\ pc[RecognitionThread] = "classified"
    /\ loc[RecognitionThread].rules = <<ServerRule, RouterRule>>
    /\ loc[RecognitionThread].device_data.open_ports = {80}
    /\ score(RouterRule, loc[RecognitionThread].device_data) = 10
    /\ score(ServerRule, loc[RecognitionThread].device_data) = 10
    /\ loc[RecognitionThread].device_type = "server"

\* C33: adding one matching keyword, open port or service name to a
\* device's evidence never decreases the score of any rule
C33_EvidenceNeverLowersScore ==
    [][(\/ \E f \in {"hostname", "vendor", "os_name", "os_family"},
              w \in HostnameWords \cup VendorWords \cup OsNameWords \cup OsFamilyWords :
              AddWord(RecognitionThread, f, w)
        \/ \E q \in PortNumbers : OpenPort(RecognitionThread, q)
        \/ \E n \in ServiceNames : AddService(RecognitionThread, n))
       => \A rule \in {RouterRule, ServerRule} :
              score(rule, loc'[RecognitionThread].device_data)
                  >= score(rule, loc[RecognitionThread].device_data)]_vars

C33_Witness ==
    /\ pc[RecognitionThread] = "idle"
    /\ loc[RecognitionThread].device_data.open_ports = {23, 80}
    /\ loc[RecognitionThread].device_data.services = {"Telnet"}
    /\ loc[RecognitionThread].device_data.vendor = {"cisco"}
    /\ score(RouterRule, loc[RecognitionThread].device_data) = 55

\* C34: when no rule scores above zero, classify_device returns
\* workstation for a Windows OS name or family; for a Linux/Unix/BSD name
\* or family server if one of the server ports is open and workstation
\* otherwise; mobile when the OS name contains android or ios; unknown in
\* every other case (the cases in the order of the sentence, the first
\* that applies deciding)
C34_DefaultByOsInOrder ==
    LET d == loc[RecognitionThread].device_data
        t == loc[RecognitionThread].device_type
        windows == "windows" \in Lowered(d.os_name) \cup Lowered(d.os_family)
        unix == \E x \in {"linux", "unix", "bsd"} :
                    x \in Lowered(d.os_name) \cup Lowered(d.os_family)
        mobile == \E x \in {"android", "ios"} : x \in Lowered(d.os_name)
        served == \E q \in d.open_ports : q \in {22, 80, 443, 3306, 5432, 6379, 8080}
    IN  (/\ pc[RecognitionThread] = "classified"
         /\ \A i \in 1..Len(loc[RecognitionThread].rules) :
                C32_Total(loc[RecognitionThread].rules[i], d) = 0)
            => /\ windows => t = "workstation"
               /\ (unix /\ ~windows) => t = IF served THEN "server" ELSE "workstation"
               /\ (mobile /\ ~windows /\ ~unix) => t = "mobile"
               /\ (~windows /\ ~unix /\ ~mobile) => t = "unknown"

C34_Witness ==
    /\ pc[RecognitionThread] = "classified"
    /\ loc[RecognitionThread].device_data.os_name = {"linux"}
    /\ loc[RecognitionThread].device_data.os_family = {}
    /\ loc[RecognitionThread].device_data.open_ports = {443}
    /\ loc[RecognitionThread].device_data.hostname = {}
    /\ loc[RecognitionThread].device_data.vendor = {}
    /\ loc[RecognitionThread].device_data.services = {}
    /\ loc[RecognitionThread].device_type = "server"

\* the evidence score as the claim gives it
C35_Evidence(d) ==
    (IF d.os_name # {} THEN 30 ELSE 0) + (IF d.vendor # {} THEN 20 ELSE 0)
    + (IF d.hostname # {} THEN 20 ELSE 0) + (IF d.open_ports_count > 0 THEN 20 ELSE 0)
    + (IF d.services # {} \/ d.closed_named THEN 10 ELSE 0)

\* C35: the confidence level is high exactly when the evidence score is at
\* least 70, medium exactly when it is at least 40 and below 70, and low
\* otherwise
C35_ConfidenceLevels ==
    LET e == C35_Evidence(loc[RecognitionThread].device_data)
        c == loc[RecognitionThread].confidence
    IN  pc[RecognitionThread] = "enriched"
            => /\ c = "high" <=> e >= 70
               /\ c = "medium" <=> (e >= 40 /\ e < 70)
               /\ c = "low" <=> e < 40

C35_Witness ==
    /\ pc[RecognitionThread] = "enriched"
    /\ C35_Evidence(loc[RecognitionThread].device_data) = 70
    /\ loc[RecognitionThread].confidence = "high"

\* how many suspicion reasons the device under examination has: one per
\* open port of the suspicious list, one for neither hostname nor vendor,
\* one for more than 50 open ports, one for an unknown type with more than
\* 5 open ports
C36_ReasonCount ==
    LET d == loc[RecognitionThread].device
        n == Len(d.open_ports) + d.other_open
    IN  Len(d.open_ports)
        + (IF d.hostname = "None" /\ d.vendor = "None" THEN 1 ELSE 0)
        + (IF n > 50 THEN 1 ELSE 0)
        + (IF d.device_type = "unknown" /\ n > 5 THEN 1 ELSE 0)

\* C36: a device is reported exactly when it has at least one suspicion
\* reason; the severity is critical for three or more reasons, high for
\* exactly two or for any suspicious-port reason, medium otherwise; a
\* device whose open port is 3389 and that has neither hostname nor vendor
\* yields two reasons and severity high
C36_ReportedWithSeverity ==
    LET d == loc[RecognitionThread].device
        rep == loc[RecognitionThread].suspicious
    IN  pc[RecognitionThread] = "examined"
            => /\ Len(rep) = (IF C36_ReasonCount >= 1 THEN 1 ELSE 0)
               /\ C36_ReasonCount >= 1 =>
                      /\ Len(rep[1].reasons) = C36_ReasonCount
                      /\ rep[1].severity =
                             IF C36_ReasonCount >= 3 THEN "critical"
                             ELSE IF C36_ReasonCount = 2 \/ d.open_ports # <<>> THEN "high"
                             ELSE "medium"
               /\ (/\ d.open_ports = <<3389>> /\ d.other_open = 0
                   /\ d.hostname = "None" /\ d.vendor = "None")
                      => Len(rep[1].reasons) = 2 /\ rep[1].severity = "high"

C36_Witness ==
    /\ pc[RecognitionThread] = "examined"
    /\ loc[RecognitionThread].device.open_ports = <<3389>>
    /\ loc[RecognitionThread].device.other_open = 0
    /\ loc[RecognitionThread].device.hostname = "None"
    /\ loc[RecognitionThread].device.vendor = "None"
    /\ Len(loc[RecognitionThread].suspicious) = 1
    /\ loc[RecognitionThread].suspicious[1].severity = "high"

\* C37: every task whose status has been set to running eventually has
\* status completed or failed, also a task dispatched by
\* execute_pending_tasks whose submission is cancelled before a worker
\* starts it
C37_RunningEventuallyTerminal ==
    \A id \in 1..MaxTasks :
        (id \in 1..Len(tasks) /\ tasks[id].status = "running")
            ~> (id \in 1..Len(tasks) /\ tasks[id].status \in {"completed", "failed"})

\* C38: with max_instances = 1 the firings of one job never overlap: at
\* any time at most one task created by that job has status running
C38_OneRunningTaskPerJob ==
    Cardinality({i \in 1..Len(tasks) :
                    tasks[i].scheduled_at = "NULL" /\ tasks[i].status = "running"}) <= 1

\* what C39 says of one add_device call for an address already in the
\* inventory: the row of that address keeps its id (its place), address
\* and first_seen, every other Device row and every Port row is untouched
C39_Frame(ip) ==
    /\ Len(devices') = Len(devices)
    /\ \A i \in 1..Len(devices) :
           IF devices[i].ip = ip
           THEN devices'[i].ip = ip /\ devices'[i].first_seen = devices[i].first_seen
           ELSE devices'[i] = devices[i]
    /\ ports' = ports

\* C39: an add_device call for an IP already in the inventory changes only
\* that IP's row and leaves its id, ip_address and first_seen unchanged;
\* all other Device rows and all Port rows are left untouched
C39_UpsertTouchesOneRow ==
    [][/\ \A th \in TriggerThreads :
              (ProcDevice(th) /\ HasRow(devices, Head(loc[th].devs).ip))
                  => C39_Frame(Head(loc[th].devs).ip)
       /\ \A d \in DirectDicts :
              (AddDeviceCall(SweepThread, d) /\ HasRow(devices, d.ip))
                  => C39_Frame(d.ip)]_vars

\* an address was upserted again at a later time, next to another device
\* and a port
C39_Witness ==
    /\ Len(devices) = 2
    /\ ports # <<>>
    /\ \E i \in 1..Len(devices) : devices[i].last_seen > devices[i].first_seen

\* the scan thread th is reconciling covers the device of port row i and
\* reports no port of that number for it
C40_AbsentFromScan(th, i) ==
    /\ ports[i].device_id \in 1..Len(devices)
    /\ \E k \in 1..Len(loc[th].batch) :
           loc[th].batch[k].ip = devices[ports[i].device_id].ip
    /\ \A k \in 1..Len(loc[th].batch) :
           loc[th].batch[k].ip = devices[ports[i].device_id].ip
               => \A q \in 1..Len(PortsOf(loc[th].batch[k])) :
                      PortsOf(loc[th].batch[k])[q].port # ports[i].port_number

\* C40: reconciliation never removes inventory rows: the set of device IPs
\* and the set of (device_id, port_number, protocol) keys only grow, and a
\* port recorded by an earlier scan and absent from a later scan of the
\* same device keeps its earlier state
C40_InventoryOnlyGrows ==
    [][/\ {devices[i].ip : i \in 1..Len(devices)}
              \subseteq {devices'[i].ip : i \in 1..Len(devices')}
       /\ {PortKey(ports[i]) : i \in 1..Len(ports)}
              \subseteq {PortKey(ports'[i]) : i \in 1..Len(ports')}
       /\ \A th \in TriggerThreads :
              (pc[th] \in {"proc_device", "proc_port", "proc_event"} /\ loc'[th] # loc[th])
                  => \A i \in 1..Len(ports) :
                         C40_AbsentFromScan(th, i) => ports'[i].state = ports[i].state]_vars

====
